---- MODULE Spec2Model ----
(***************************************************************************)
(* A state-machine model of the viewshed plugin: the Viewshed entity       *)
(* (src/src/viewshed.js), the two-click ViewshedInteraction                *)
(* (src/src/viewshedInteraction.js), the ViewshedManager closure           *)
(* (src/src/viewshedManager.js), the category helper                       *)
(* (src/src/viewshedCategory.js) and the plugin's map-activation listener  *)
(* (src/src/index.js).                                                     *)
(*                                                                         *)
(* JavaScript handlers run to completion and call each other               *)
(* synchronously (event listeners included), so every handler is an        *)
(* operator from a state record to a state record and an action commits    *)
(* the record its handler returns.  A thrown exception is the field err:   *)
(* once set, the remaining statements of every enclosing handler are       *)
(* skipped, and what was assigned before the throw stays assigned.         *)
(*                                                                         *)
(* Collaborators outside the repository are modelled at their interface:   *)
(*  - CesiumMap.setShadowMap(m) installs m and raises shadowMapChanged     *)
(*    when m is not the scene's shadow map already; setDefaultShadowMap    *)
(*    is setShadowMap(default).  VcsEvent.raiseEvent calls the listeners   *)
(*    registered when the event is raised, in registration order.          *)
(*  - EventHandler.addExclusiveInteraction replaces the holder of the      *)
(*    exclusive slot and calls the replaced holder's removed-callback;     *)
(*    the returned remover acts only while its interaction is the holder.  *)
(*  - the interaction chain hands an event to an interaction only while   *)
(*    the interaction is in the chain and active for the event's type.     *)
(*  - an edit session holds the exclusive slot while it runs, stops when   *)
(*    it loses the slot, and raises 'stopped' whenever stop() is called.   *)
(*  - a destroyed Cesium ShadowMap throws when destroy() is called again.  *)
(*  - check(value, [Number]) of @vcsuite/check accepts an array, of any     *)
(*    length, whose elements are all numbers, and throws otherwise.         *)
(*  - PrimitiveCollection.remove removes a primitive only from the          *)
(*    collection it is called on.                                           *)
(* Heights are integers in units of 1.8 m (the default height offset) and  *)
(* are kept within MaxHeight of zero by the guards.  A continuation        *)
(* suspended at await nextTick() resumes at the end of the running task,    *)
(* so only calls made by code (the manager's API) can run before it:        *)
(* pointer, list, map and network events are tasks of their own.            *)
(***************************************************************************)
EXTENDS Integers, Sequences, FiniteSets, TLC

\* ---------------------------------------------------------------- bounds
MaxEnts == 2
MaxPending == 2
MaxQueries == 1
MaxClickHeight == 1
MaxTerrainHeight == 1
MaxHeight == 2
StackLimit == 4
MaxItems == 3
MaxTitle == 3
MaxListeners == 2
MaxObjects == 1
MaxBeyond == 1
MaxDegrees == 1
MaxRoll == 1
MaxForeign == 1

Ents == 1..MaxEnts
CesiumMaps == {"c1"}
OtherMaps == {"ol"}
\* The Cesium maps that are initialized, which are those that have a scene.
SceneMaps == {"c1", "c2"}
Maps == CesiumMaps \cup OtherMaps
ClickHeights == 0..MaxClickHeight
GroundHeights == {0}
TerrainHeights == 1..MaxTerrainHeight

\* ------------------------------------------------------- program constants
\* The default height offset (1.8 m), which is the unit heights are counted in.
defaultHeightOffset == 1
ViewshedTypes == {"cone", "360"}
HeightModes == {"absolute", "relative"}
ViewshedPluginModes == {"create", "view", "edit", "move", "multiSelect"}

VARIABLES
  ents,               \* Viewshed objects: [Ents -> Viewshed record]
  shadow,             \* scene.shadowMap of each Cesium map: its owner (0 = the default
                      \* shadow map, -1 = another consumer's, else the entity's)
  listeners,          \* shadowMapChanged listeners of each Cesium map, in order (0 = manager)
  activeMap,          \* app.maps.activeMap ("none" = null)
  currentViewshed,    \* manager: currentViewshed.value (0 = null)
  currentIsPersisted, \* manager: currentIsPersisted.value ("null", "true", "false")
  mode,               \* manager: mode.value ("null" = null)
  heightMode,         \* manager: heightMode.value
  removeInteraction,  \* manager: which teardown closure is stored ("noop", "create", "move")
  currentEditSession, \* manager: currentEditSession.value ("none", "features", "geometry")
  mgrListener,        \* manager: the map shadowMapChangedListener is registered on, or "none"
  inter,              \* the ViewshedInteraction the stored create teardown refers to
  excl,               \* holder of the event handler's exclusive slot
  pending,            \* createViewshed calls suspended at await nextTick()
  queries,            \* terrain queries in flight (changeHeightMode)
  collection,         \* category.collection, as the set of its members
  visible,            \* the list item's visibility icon is checked
  selection,          \* collectionComponent.selection
  proxyLayer,         \* manager: the MOVE proxy layer is in app.layers
  geometryListener,   \* manager: the proxy geometry's 'change' listener is attached
  cached,             \* index.js: the plugin state handed to initialize (state.m / state.cv)
  applied             \* index.js: appliedCachedViewshed

vars == <<ents, shadow, listeners, activeMap, currentViewshed, currentIsPersisted,
          mode, heightMode, removeInteraction, currentEditSession, mgrListener,
          inter, excl, pending, queries, collection, visible, selection,
          proxyLayer, geometryListener, cached, applied>>

\* ------------------------------------------------------------ Viewshed
\* Every operator that models a statement or a call leaves a state in which
\* an exception is being propagated (err) as it is.

\* A Viewshed object as its constructor leaves it when no map is passed.
NewViewshed(type, heightOffset, title) ==
  [alloc |-> TRUE, type |-> type, title |-> title, active |-> FALSE,
   map |-> "none", lmap |-> "none", cam |-> FALSE, scene |-> "none",
   sm |-> "none", showPrimitive |-> FALSE, primitive |-> "none",
   heightOffset |-> heightOffset, posH |-> 0, posLen |-> 3]

NoViewshed == [NewViewshed("cone", 0, 0) EXCEPT !.alloc = FALSE]

NoInteraction ==
  [exists |-> FALSE, viewshed |-> 0, position |-> FALSE, active |-> FALSE,
   destroyed |-> FALSE]

throw(s) == [s EXCEPT !.err = TRUE]

RemoveFirst(seq, x) ==
  LET idx == {i \in 1..Len(seq) : seq[i] = x}
  IN IF idx = {} THEN seq
     ELSE LET k == CHOOSE i \in idx : \A j \in idx : i <= j
          IN SubSeq(seq, 1, k - 1) \o SubSeq(seq, k + 1, Len(seq))

getScene(m) == IF m \in SceneMaps THEN m ELSE "none"

\* (orphans records the markers that stay in a scene's primitives because
\* this._scene is not, or no longer, the scene they were added to.)
removePrimitive(s, e) ==
  IF s.ents[e].primitive # "none"
  THEN [s EXCEPT !.ents[e].primitive = "none",
                 !.orphans = IF s.ents[e].primitive # s.ents[e].scene
                             THEN @ \cup {<<s.ents[e].primitive, e>>} ELSE @]
  ELSE s

updatePrimitive(s, e) ==
  IF s.err THEN s
  ELSE IF s.ents[e].showPrimitive /\ s.ents[e].active /\ s.ents[e].scene # "none"
  THEN [removePrimitive(s, e) EXCEPT !.ents[e].primitive = s.ents[e].scene]
  ELSE removePrimitive(s, e)

RECURSIVE deactivate(_, _), stop(_, _), callRemoveInteraction(_), notify(_, _, _),
          deactivateCurrentViewshed(_), sessionStop(_)

\* One listener of shadowMapChanged: an entity's listener calls deactivate
\* (viewshed.js:455); the manager's listener (viewshedManager.js:172, listener
\* 0) compares the new shadow map with currentViewshed.value?.shadowMap, a
\* property Viewshed does not define, so the two are always unequal and it
\* calls stop(false).
shadowMapChangedListener(s, l) ==
  IF l = 0 THEN stop(s, FALSE) ELSE deactivate(s, l)

\* VcsEvent.raiseEvent: the listeners registered when the event is raised
\* are called in order.
notify(s, ls, i) ==
  IF i > Len(ls) \/ s.err THEN s
  ELSE notify(shadowMapChangedListener(s, ls[i]), ls, i + 1)

raiseShadowMapChanged(s, m) == notify(s, s.listeners[m], 1)

\* CesiumMap.setShadowMap raising shadowMapChanged for the installed map too.
setShadowMapAlwaysRaises(s, m, owner) ==
  IF s.err THEN s
  ELSE raiseShadowMapChanged([s EXCEPT !.shadow[m] = owner], m)

setShadowMap(s, m, owner) ==
  IF s.err \/ s.shadow[m] = owner THEN s
  ELSE raiseShadowMapChanged([s EXCEPT !.shadow[m] = owner], m)

setDefaultShadowMap(s, m) == setShadowMap(s, m, 0)

updateShadowMap(s, e) ==
  IF s.err \/ ~s.ents[e].active \/ ~s.ents[e].cam \/ s.ents[e].map = "none"
     \/ s.ents[e].scene = "none"
  THEN s
  ELSE setShadowMap([s EXCEPT !.ents[e].sm = "live", !.shadow[s.ents[e].scene] = e],
                    s.ents[e].map, e)

\* deactivate: this._shadowMapChangedListener?.()
deactivateListener(s, e) ==
  IF s.ents[e].lmap # "none"
  THEN [s EXCEPT !.listeners[s.ents[e].lmap] = RemoveFirst(@, e), !.ents[e].lmap = "none"]
  ELSE s

\* deactivate: the default shadow map is restored if the scene's is this one.
deactivateShadowMap(s, e) ==
  IF s.ents[e].map # "none" /\ getScene(s.ents[e].map) # "none"
     /\ s.shadow[s.ents[e].map] = e
  THEN setDefaultShadowMap(s, s.ents[e].map)
  ELSE s

\* deactivate: this._shadowMap?.destroy() and the fields that are cleared.
deactivateRelease(s, e) ==
  IF s.err THEN s
  ELSE IF s.ents[e].sm = "destroyed" THEN throw(s)
  ELSE [s EXCEPT !.ents[e].sm = IF @ = "live" THEN "destroyed" ELSE @,
                 !.ents[e].cam = FALSE, !.ents[e].scene = "none",
                 !.ents[e].map = "none", !.ents[e].active = FALSE]

deactivate(s, e) ==
  IF s.err \/ ~s.ents[e].active THEN s
  ELSE deactivateRelease(
         deactivateShadowMap(deactivateListener(removePrimitive(s, e), e), e), e)

destroy(s, e) == deactivate(s, e)

\* The position setter after its check, for coordinates with height h.
\* (positionChanged counts the notifications raised.)
setPosition(s, e, h) ==
  IF s.err THEN s
  ELSE IF s.ents[e].cam
  THEN updatePrimitive([s EXCEPT !.ents[e].posH = h, !.positionChanged = @ + 1], e)
  ELSE [s EXCEPT !.ents[e].posH = h, !.positionChanged = @ + 1]

\* check(coords, [Number]): coords is an array whose elements are numbers.
\* Coordinates are given by their length, whether every element is a number
\* and the height (the third element, where there is one).
check(coords) == coords.numeric

\* The position setter (viewshed.js:227).
position(s, e, coords) ==
  IF s.err THEN s
  ELSE IF ~check(coords) THEN throw(s)
  ELSE [setPosition(s, e, IF coords.len >= 3 THEN coords.h ELSE 0)
          EXCEPT !.ents[e].posLen = coords.len]

\* activate: this._active = true
activateFlag(s, e) ==
  [s EXCEPT !.ents[e].active = TRUE,
            !.overlap = @ \/ \E x \in Ents \ {e} : s.ents[x].active]

\* activate: the shadow camera is created, the cached position applied and
\* the scene stored.
activateScene(s, e, m) ==
  [setPosition([s EXCEPT !.ents[e].map = m, !.ents[e].cam = TRUE], e, s.ents[e].posH)
     EXCEPT !.ents[e].scene = getScene(m)]

\* activate: the entity's shadowMapChanged listener is registered.
activateListener(s, e, m) ==
  [s EXCEPT !.listeners[m] = Append(@, e), !.ents[e].lmap = m]

activate(s, e, m) ==
  IF s.err THEN s
  ELSE IF m = s.ents[e].map THEN activateFlag(s, e)
  ELSE IF getScene(m) = "none" THEN throw([activateFlag(s, e) EXCEPT !.ents[e].map = m])
  ELSE activateListener(
         updatePrimitive(updateShadowMap(activateScene(activateFlag(s, e), e, m), e), e),
         e, m)

setHeightOffset(s, e, value) ==
  IF s.err THEN s
  ELSE IF s.ents[e].cam
  THEN updatePrimitive(updateShadowMap([s EXCEPT !.ents[e].heightOffset = value], e), e)
  ELSE [s EXCEPT !.ents[e].heightOffset = value]

\* distance setter: the marker is rebuilt for a cone.
setDistancePrimitive(s, e) ==
  IF s.ents[e].type = "cone" THEN updatePrimitive(s, e) ELSE s

setDistance(s, e) ==
  IF s.err THEN s
  ELSE IF s.ents[e].cam THEN setDistancePrimitive(updateShadowMap(s, e), e)
  ELSE s

\* fov setter: the shadow map and, for a cone, the marker are rebuilt.
setFov(s, e) ==
  IF s.err THEN s
  ELSE IF s.ents[e].cam THEN setDistancePrimitive(updateShadowMap(s, e), e)
  ELSE s

\* (lookAts records the heights of the targets lookAt is called with.)
lookAt(s, e, h) ==
  IF s.err THEN s
  ELSE IF ~s.ents[e].cam THEN [s EXCEPT !.lookAts = Append(@, h)]
  ELSE updatePrimitive(setDistance([s EXCEPT !.lookAts = Append(@, h)], e), e)

setShowPrimitive(s, e, value) ==
  updatePrimitive([s EXCEPT !.ents[e].showPrimitive = value], e)

\* ------------------------------------------------------- category helper
setVisibility(s, e, v) ==
  IF ~s.err /\ e \in s.collection THEN [s EXCEPT !.visible[e] = v] ELSE s

clearSelection(s) ==
  IF ~s.err /\ s.selection # {} THEN [s EXCEPT !.selection = {}] ELSE s

setSelection(s, e) ==
  IF s.err THEN s ELSE [s EXCEPT !.selection = {e} \cap s.collection]

RECURSIVE probeTitle(_, _)
probeTitle(used, count) ==
  IF count \notin used THEN count ELSE probeTitle(used, count + 1)

\* getTitleForViewshed probing the titles of every member, whatever its kind.
getTitleForViewshedAnyKind(s, type) ==
  probeTitle({s.ents[x].title : x \in s.collection}, 1)

\* The n of the generated title "<type>-<n>".
getTitleForViewshed(s, type) ==
  probeTitle({s.ents[x].title : x \in {y \in s.collection : s.ents[y].type = type}}, 1)

add(s, e) ==
  [s EXCEPT !.ents[e].title = getTitleForViewshed(s, s.ents[e].type),
            !.collection = @ \cup {e}]

remove(s, e) ==
  IF e \in s.collection THEN [s EXCEPT !.collection = @ \ {e}] ELSE s

\* The list item's titleChanged(title): the user renames the item.
titleChanged(s, e, title) == [s EXCEPT !.ents[e].title = title]

\* The import action: new Viewshed(options) is added to the collection.
importViewshed(s, e, type, title) ==
  [s EXCEPT !.ents[e] = NewViewshed(type, 0, title), !.collection = @ \cup {e}]

\* ------------------------------------------------------- event handler
interactionDestroy(s) ==
  IF s.inter.exists THEN [s EXCEPT !.inter.destroyed = TRUE] ELSE s

\* The removed-callback of the interaction that held the exclusive slot.
exclusiveRemoved(s, old) ==
  CASE old = "create"  -> interactionDestroy(s)
    [] old = "session" -> sessionStop(s)
    [] OTHER           -> s

\* EventHandler.addExclusiveInteraction(interaction, removed): the previous
\* holder leaves the slot and its removed-callback runs.
addExclusiveInteraction(s, holder) ==
  IF s.err THEN s ELSE exclusiveRemoved([s EXCEPT !.excl = holder], s.excl)

removeExclusiveInteractionAnyHolder(s, holder) ==
  IF s.err THEN s
  ELSE IF holder = "create" THEN interactionDestroy([s EXCEPT !.excl = "none"])
  ELSE [s EXCEPT !.excl = "none"]

\* The remover returned by addExclusiveInteraction for the given holder.
removeExclusiveInteraction(s, holder) ==
  IF s.err \/ s.excl # holder THEN s
  ELSE IF holder = "create" THEN interactionDestroy([s EXCEPT !.excl = "none"])
  ELSE [s EXCEPT !.excl = "none"]

\* ------------------------------------------------------------- manager
\* session.stop(): leaves the exclusive slot and raises 'stopped', whose
\* listener (viewshedManager.js:253) calls removeInteraction().
sessionStop(s) ==
  IF s.err THEN s
  ELSE callRemoveInteraction(removeExclusiveInteraction(s, "session"))

createTeardown(s) ==
  [interactionDestroy(removeExclusiveInteraction(s, "create"))
     EXCEPT !.removeInteraction = "noop", !.inter = NoInteraction]

\* MOVE teardown: currentEditSession.value?.stop()
moveTeardownSession(s) ==
  IF s.currentEditSession # "none" THEN sessionStop(s) ELSE s

\* The MOVE teardown leaving the proxy layer in app.layers.
moveTeardownKeepsLayer(s) ==
  IF s.err THEN s
  ELSE [s EXCEPT !.currentEditSession = "none", !.mode = "edit", !.depth = @ - 1]

\* MOVE teardown: the statements after the session is stopped.
moveTeardownLayer(s) ==
  IF s.err THEN s
  ELSE [s EXCEPT !.currentEditSession = "none", !.proxyLayer = FALSE,
                 !.mode = "edit", !.depth = @ - 1]

\* The MOVE teardown with removeInteraction reset after the session is
\* stopped instead of first.
moveTeardownResetsLast(s) ==
  LET r == moveTeardownLayer(moveTeardownSession(
             [s EXCEPT !.teardowns = @ + 1, !.depth = @ + 1,
                       !.geometryListener = FALSE]))
  IN IF r.err THEN r ELSE [r EXCEPT !.removeInteraction = "noop"]

moveTeardown(s) ==
  moveTeardownLayer(moveTeardownSession(
    [s EXCEPT !.removeInteraction = "noop", !.teardowns = @ + 1, !.depth = @ + 1,
              !.geometryListener = FALSE]))

\* removeInteraction(): the stored teardown closure is called.  (depth counts
\* the frames of the MOVE teardown on the stack.)
callRemoveInteraction(s) ==
  IF s.err THEN s
  ELSE IF s.depth >= StackLimit THEN throw(s)
  ELSE CASE s.removeInteraction = "create" -> createTeardown(s)
         [] s.removeInteraction = "move"   -> moveTeardown(s)
         [] OTHER                          -> s

\* deactivateCurrentViewshed: categoryHelper.setVisibility(currentViewshed.value.name, false)
hideCurrentViewshed(s) ==
  IF s.err THEN s
  ELSE IF s.currentViewshed = 0 THEN throw(s)
  ELSE setVisibility(s, s.currentViewshed, FALSE)

\* deactivateCurrentViewshed calling destroy() on the current entity without
\* the optional chaining that tolerates null.
deactivateCurrentViewshedUnguarded(s) ==
  IF s.err THEN s
  ELSE IF s.currentViewshed = 0 THEN throw(s)
  ELSE IF s.currentIsPersisted = "true"
  THEN hideCurrentViewshed(
         deactivate([s EXCEPT !.left = @ \cup {<<s.currentViewshed, "persisted">>}],
                    s.currentViewshed))
  ELSE destroy([s EXCEPT !.left = @ \cup {<<s.currentViewshed, "transient">>}],
               s.currentViewshed)

deactivateCurrentViewshed(s) ==
  IF s.err THEN s
  ELSE IF s.currentIsPersisted = "true" /\ s.currentViewshed # 0
  THEN hideCurrentViewshed(
         deactivate([s EXCEPT !.left = @ \cup {<<s.currentViewshed, "persisted">>}],
                    s.currentViewshed))
  ELSE IF s.currentViewshed # 0
  THEN destroy([s EXCEPT !.left = @ \cup {<<s.currentViewshed, "transient">>}],
               s.currentViewshed)
  ELSE s

\* shadowMapChangedListener(): the manager's listener is removed.
removeMgrListener(s) ==
  IF s.err \/ s.mgrListener = "none" THEN s
  ELSE [s EXCEPT !.listeners[s.mgrListener] = RemoveFirst(@, 0), !.mgrListener = "none"]

\* stop: the statements after deactivateCurrentViewshed().
stopClear(s, clear) ==
  IF s.err THEN s
  ELSE [(IF clear THEN clearSelection(s) ELSE s)
          EXCEPT !.currentViewshed = 0, !.currentIsPersisted = "null", !.mode = "null"]

\* stop without its removeInteraction() call.
stopKeepsInteraction(s, clear) ==
  stopClear(deactivateCurrentViewshed(removeMgrListener(s)), clear)

stop(s, clear) ==
  stopClear(deactivateCurrentViewshed(callRemoveInteraction(removeMgrListener(s))), clear)

\* activateViewshed: the manager's shadowMapChanged listener is registered.
addMgrListener(s) ==
  IF s.err THEN s
  ELSE [s EXCEPT !.listeners[s.activeMap] = Append(@, 0), !.mgrListener = s.activeMap]

\* activateViewshed: the part guarded by activeMap instanceof CesiumMap.
activateOnCesiumMap(s, viewshed) ==
  IF s.err THEN s
  ELSE IF s.activeMap \in CesiumMaps
  THEN addMgrListener(activate([s EXCEPT !.currentViewshed = viewshed], viewshed,
                               s.activeMap))
  ELSE s

\* activateViewshed without its deactivateCurrentViewshed() call.
activateViewshedKeepsCurrent(s, viewshed) ==
  activateOnCesiumMap(removeMgrListener(s), viewshed)

activateViewshed(s, viewshed) ==
  activateOnCesiumMap(deactivateCurrentViewshed(removeMgrListener(s)), viewshed)

FreshEnt(s) == CHOOSE e \in Ents : ~s.ents[e].alloc /\ \A x \in Ents : ~s.ents[x].alloc => e <= x

\* createViewshed: the call is suspended at await nextTick().
awaitNextTick(s, viewshedType) ==
  IF s.err THEN s ELSE [s EXCEPT !.pending = Append(@, viewshedType)]

\* createViewshed up to its await nextTick().
createViewshedCall(s, viewshedType) == awaitNextTick(stop(s, TRUE), viewshedType)

\* The finished listener: the statements after removeInteraction().
finishedMode(s) ==
  IF s.err THEN s
  ELSE IF s.currentViewshed # 0
  THEN [setShowPrimitive(s, s.currentViewshed, TRUE) EXCEPT !.mode = "edit"]
  ELSE stop(s, TRUE)

\* The finished listener without enabling the marker.
finishedListenerNoMarker(s) ==
  LET s1 == callRemoveInteraction(s)
  IN IF s1.err THEN s1
     ELSE IF s1.currentViewshed # 0 THEN [s1 EXCEPT !.mode = "edit"]
     ELSE stop(s1, TRUE)

finishedListener(s) == finishedMode(callRemoveInteraction(s))

\* createViewshed: new Viewshed({viewshedType, heightOffset}).  (dirty records
\* that the continuation did not start in the state stop() left.)
constructViewshed(s) ==
  [s EXCEPT !.pending = Tail(@),
            !.dirty = (s.mode # "null" \/ s.currentViewshed # 0
                       \/ s.removeInteraction # "noop"
                       \/ s.currentEditSession # "none"),
            !.ents[FreshEnt(s)] =
               NewViewshed(Head(s.pending),
                           IF s.heightMode = "absolute" THEN 0 ELSE defaultHeightOffset, 0)]

\* createViewshed: the interaction and its teardown are stored and the mode
\* is set.  (lost records that a stored teardown was overwritten.)
storeCreateTeardown(s) ==
  IF s.err THEN s
  ELSE [s EXCEPT !.inter = [exists |-> TRUE, viewshed |-> s.currentViewshed,
                            position |-> FALSE, active |-> TRUE, destroyed |-> FALSE],
                 !.lost = (s.removeInteraction # "noop"),
                 !.removeInteraction = "create",
                 !.mode = "create"]

\* createViewshed after its await nextTick().
createViewshedResume(s) ==
  storeCreateTeardown(
    addExclusiveInteraction(activateViewshed(constructViewshed(s), FreshEnt(s)), "create"))

\* pipe: the first click fixes the position and raises positioned.
\* (positioned and finished count the notifications raised.)
pipePositioned(s, click) ==
  IF ~s.err /\ click THEN [s EXCEPT !.inter.position = TRUE, !.positioned = @ + 1] ELSE s

\* pipe: the second click deactivates the interaction and raises finished.
pipeFinished(s, click) ==
  IF ~s.err /\ click
  THEN finishedListener([s EXCEPT !.inter.active = FALSE, !.finished = @ + 1])
  ELSE s

\* ViewshedInteraction.pipe for an event with a world position at height h.
pipe(s, click, h) ==
  IF s.inter.viewshed = 0 THEN throw(s)
  ELSE IF ~s.inter.position
  THEN pipePositioned(setPosition(s, s.inter.viewshed, h), click)
  ELSE pipeFinished(lookAt(s, s.inter.viewshed, h), click)

\* The interaction chain hands an event to pipe while the interaction is in
\* the chain, which is while it holds the exclusive slot, and is active; pipe
\* ignores an event that carries no world position.
Deliverable(s) == s.excl = "create" /\ s.inter.exists /\ s.inter.active

pipeEvent(s, event) ==
  IF ~Deliverable(s) \/ event.position = <<>> THEN s
  ELSE pipe(s, event.click, event.position[1])

\* moveCurrentViewshed: the listeners are attached, the mode is set and the
\* MOVE teardown is stored.
storeMoveTeardown(s) ==
  IF s.err THEN s
  ELSE [s EXCEPT !.geometryListener = TRUE, !.mode = "move",
                 !.lost = (s.removeInteraction # "noop"),
                 !.removeInteraction = "move"]

\* moveCurrentViewshed starting a feature-translate session in either height mode.
startEditSessionFeaturesOnly(s) ==
  IF s.err THEN s
  ELSE storeMoveTeardown(
         addExclusiveInteraction(
           [s EXCEPT !.proxyLayer = TRUE, !.currentEditSession = "features"], "session"))

\* moveCurrentViewshed: the proxy layer is added and the edit session started.
startEditSession(s) ==
  IF s.err THEN s
  ELSE storeMoveTeardown(
         addExclusiveInteraction(
           [s EXCEPT !.proxyLayer = TRUE,
                     !.currentEditSession = IF s.heightMode = "absolute" THEN "features"
                                            ELSE "geometry"], "session"))

moveCurrentViewshed(s, activate_) ==
  IF s.currentViewshed # 0 /\ activate_
  THEN startEditSession(callRemoveInteraction(s))
  ELSE callRemoveInteraction(s)

\* The proxy geometry's 'change' listener (viewshedManager.js:257).
geometryChanged(s, h) ==
  IF s.currentViewshed # 0 THEN setPosition(s, s.currentViewshed, h) ELSE stop(s, TRUE)

\* changeMode: heightMode follows the entity's heightOffset.
inferHeightMode(s, viewshed) ==
  IF s.err THEN s
  ELSE [s EXCEPT !.heightMode = IF s.ents[viewshed].heightOffset # 0
                                 THEN "relative" ELSE "absolute"]

\* changeMode deriving the height mode for the current entity as well.
changeModeActivateAlways(s, viewshed) ==
  IF s.err THEN s
  ELSE IF s.currentViewshed = viewshed THEN inferHeightMode(s, viewshed)
  ELSE inferHeightMode(activateViewshed(s, viewshed), viewshed)

\* changeMode: a different entity is activated.
changeModeActivate(s, viewshed) ==
  IF s.err \/ s.currentViewshed = viewshed THEN s
  ELSE inferHeightMode(activateViewshed(s, viewshed), viewshed)

\* changeMode: currentIsPersisted, mode and the item's visibility are set.
changeModeSet(s, viewshedMode, viewshed) ==
  IF s.err THEN s
  ELSE IF s.ents[viewshed].title # 0
  THEN setVisibility([s EXCEPT !.currentIsPersisted = "true", !.mode = viewshedMode],
                     viewshed, TRUE)
  ELSE [s EXCEPT !.currentIsPersisted = "false", !.mode = viewshedMode]

changeMode(s, viewshedMode, viewshed) ==
  changeModeSet(changeModeActivate(callRemoveInteraction(s), viewshed),
                viewshedMode, viewshed)

viewViewshed(s, viewshed) == changeMode(s, "view", viewshed)

\* editViewshed: a persisted entity is selected in the list.
selectPersisted(s, viewshed) ==
  IF ~s.err /\ s.currentIsPersisted = "true" THEN setSelection(s, viewshed) ELSE s

editViewshed(s, viewshed) == selectPersisted(changeMode(s, "edit", viewshed), viewshed)

\* persistCurrent without marking the item visible.
persistCurrentNotVisible(s) ==
  IF s.currentViewshed # 0
  THEN setSelection([add(s, s.currentViewshed) EXCEPT !.currentIsPersisted = "true"],
                    s.currentViewshed)
  ELSE s

persistCurrent(s) ==
  IF s.currentViewshed # 0
  THEN setVisibility(
         setSelection([add(s, s.currentViewshed) EXCEPT !.currentIsPersisted = "true"],
                      s.currentViewshed),
         s.currentViewshed, TRUE)
  ELSE s

\* setupMultiSelect: mode.value = MULTI_SELECT
enterMultiSelect(s) == IF s.err THEN s ELSE [s EXCEPT !.mode = "multiSelect"]

\* setupMultiSelect: currentViewshed.value = null
clearCurrentViewshed(s) == IF s.err THEN s ELSE [s EXCEPT !.currentViewshed = 0]

setupMultiSelect(s) ==
  clearCurrentViewshed(deactivateCurrentViewshed(enterMultiSelect(callRemoveInteraction(s))))

\* collection.removed listener (viewshedManager.js:309), after the item left.
removedListener(s, item) ==
  IF s.currentViewshed = item THEN stop(s, TRUE) ELSE s

visibilityChangedListener(s, item) ==
  IF s.currentViewshed = item
  THEN setVisibility(stop(s, TRUE), item, FALSE)
  ELSE setVisibility(clearSelection(changeMode(s, "view", item)), item, TRUE)

\* changeHeightMode: in MOVE the session is left first.
leaveMove(s) == IF s.mode = "move" THEN callRemoveInteraction(s) ELSE s

\* changeHeightMode: the branches on the mode.
applyHeightMode(s, newHeightMode) ==
  IF s.err THEN s
  ELSE IF s.mode = "create"
  THEN setHeightOffset(s, s.currentViewshed,
                       IF newHeightMode = "absolute" THEN 0 ELSE defaultHeightOffset)
  ELSE IF s.mode = "edit"
  THEN IF newHeightMode = "relative"
       THEN IF s.activeMap \notin CesiumMaps THEN throw(s)
            ELSE [s EXCEPT !.queries =
                    Append(@, [posH |-> s.ents[s.currentViewshed].posH,
                               origin |-> s.currentViewshed])]
       ELSE setHeightOffset(
              setPosition(s, s.currentViewshed,
                          s.ents[s.currentViewshed].posH
                            + s.ents[s.currentViewshed].heightOffset),
              s.currentViewshed, 0)
  ELSE s

changeHeightMode(s, newHeightMode) ==
  IF newHeightMode = s.heightMode \/ s.currentViewshed = 0 THEN s
  ELSE applyHeightMode(leaveMove([s EXCEPT !.heightMode = newHeightMode]), newHeightMode)

applyTerrainHeightAsOffset(s, posH, terrainHeight) ==
  IF s.currentViewshed # 0
  THEN setPosition(setHeightOffset(s, s.currentViewshed, terrainHeight),
                   s.currentViewshed, terrainHeight)
  ELSE s

\* The .then callback (viewshedManager.js:361) for a query issued at height
\* posH that resolves with terrainHeight.
applyTerrainHeight(s, posH, terrainHeight) ==
  IF s.currentViewshed # 0
  THEN setPosition(setHeightOffset(s, s.currentViewshed, posH - terrainHeight),
                   s.currentViewshed, terrainHeight)
  ELSE s

terrainResolved(s, terrainHeight) ==
  applyTerrainHeight([s EXCEPT !.queries = Tail(@)], Head(s.queries).posH, terrainHeight)

\* ------------------------------------------------------------ index.js
\* The plugin state handed to initialize: nothing, or a mode (state.m) with
\* the snapshot of an entity (state.cv) that carries a title or none.
NoState == [m |-> "none", title |-> 0]

PluginStates == {NoState} \cup [m : {"view", "edit"}, title : {0, 1}]

\* activateCachedViewshed: new Viewshed(state.cv)
restoreViewshed(s) ==
  [s EXCEPT !.ents[FreshEnt(s)] = NewViewshed("cone", 0, s.cached.title)]

activateCachedViewshed(s, map) ==
  IF s.err THEN s
  ELSE IF s.cached.m # "none" /\ map \in CesiumMaps
  THEN IF s.cached.m = "view" THEN viewViewshed(restoreViewshed(s), FreshEnt(s))
       ELSE editViewshed(restoreViewshed(s), FreshEnt(s))
  ELSE s

\* appliedCachedViewshed = true
markApplied(s) ==
  IF s.err THEN s ELSE [s EXCEPT !.applied = TRUE, !.cached = NoState]

\* The map-activation listener: the statements after stop().
applyCachedOnce(s, map) ==
  IF s.err \/ s.applied THEN s ELSE markApplied(activateCachedViewshed(s, map))

\* The map-activation listener calling stop(false).
mapActivatedListenerKeepsSelection(s, map) == applyCachedOnce(stop(s, FALSE), map)

mapActivatedListener(s, map) == applyCachedOnce(stop(s, TRUE), map)

\* ------------------------------------------------------------- actions
\* The state a handler starts from: the variables, no exception raised and
\* nothing observed yet.
Cur ==
  [ents |-> ents, shadow |-> shadow, listeners |-> listeners, activeMap |-> activeMap,
   currentViewshed |-> currentViewshed, currentIsPersisted |-> currentIsPersisted,
   mode |-> mode, heightMode |-> heightMode, removeInteraction |-> removeInteraction,
   currentEditSession |-> currentEditSession, mgrListener |-> mgrListener,
   inter |-> inter, excl |-> excl, pending |-> pending, queries |-> queries,
   collection |-> collection, visible |-> visible, selection |-> selection,
   proxyLayer |-> proxyLayer, geometryListener |-> geometryListener,
   cached |-> cached, applied |-> applied,
   err |-> FALSE, depth |-> 0, left |-> {}, lost |-> FALSE, dirty |-> FALSE,
   teardowns |-> 0, overlap |-> FALSE, orphans |-> {}, positionChanged |-> 0,
   positioned |-> 0, finished |-> 0, lookAts |-> <<>>]

\* A Viewshed object nothing refers to any more is reclaimed.  One that only
\* the closure of a terrain query in flight remembers (as the entity the
\* query was issued for) keeps its identity, and nothing else.
Referenced(s, e) ==
  \/ e = s.currentViewshed
  \/ e \in s.collection
  \/ s.ents[e].active
  \/ s.inter.viewshed = e
  \/ \E m \in CesiumMaps : s.shadow[m] = e \/ \E i \in 1..Len(s.listeners[m]) : s.listeners[m][i] = e

Remembered(s, e) == \E i \in 1..Len(s.queries) : s.queries[i].origin = e

Collected(s) ==
  [e \in Ents |-> IF ~s.ents[e].alloc \/ Referenced(s, e) THEN s.ents[e]
                  ELSE IF Remembered(s, e) THEN [NoViewshed EXCEPT !.alloc = TRUE]
                  ELSE NoViewshed]

InRange(s) ==
  \A e \in Ents : /\ s.ents[e].posH \in 0..MaxHeight
                  /\ s.ents[e].heightOffset \in -MaxHeight..MaxHeight

Commit(n) ==
  /\ InRange(n)
  /\ ents' = Collected(n)
  /\ shadow' = n.shadow
  /\ listeners' = n.listeners
  /\ activeMap' = n.activeMap
  /\ currentViewshed' = n.currentViewshed
  /\ currentIsPersisted' = n.currentIsPersisted
  /\ mode' = n.mode
  /\ heightMode' = n.heightMode
  /\ removeInteraction' = n.removeInteraction
  /\ currentEditSession' = n.currentEditSession
  /\ mgrListener' = n.mgrListener
  /\ inter' = n.inter
  /\ excl' = n.excl
  /\ pending' = n.pending
  /\ queries' = n.queries
  /\ collection' = n.collection
  /\ visible' = n.visible
  /\ selection' = n.selection
  /\ proxyLayer' = n.proxyLayer
  /\ geometryListener' = n.geometryListener
  /\ cached' = n.cached
  /\ applied' = n.applied

HasFree == \E e \in Ents : ~ents[e].alloc

\* The entities a caller can hand to the manager: the current one and the
\* members of the collection.
Known == (collection \cup {currentViewshed}) \ {0}

\* The kinds createViewshed is called with.
CreateTypes == {"cone"}

\* No createViewshed continuation is waiting for the end of the task.
Idle == pending = <<>>

CreateViewshed ==
  \E t \in CreateTypes :
    /\ Len(pending) < MaxPending
    /\ Commit(createViewshedCall(Cur, t))

CreateViewshedResume ==
  /\ pending # <<>>
  /\ HasFree
  /\ Commit(createViewshedResume(Cur))

\* A pointer event reaches the interaction while it holds the exclusive
\* slot; it carries a world position at a height of H, or none.
PointerEventAt(H) ==
  /\ Idle
  /\ Deliverable(Cur)
  /\ \E click \in BOOLEAN :
       \/ \E h \in H : Commit(pipeEvent(Cur, [click |-> click, position |-> <<h>>]))
       \/ Commit(pipeEvent(Cur, [click |-> click, position |-> <<>>]))

PointerEvent == PointerEventAt(GroundHeights)

PointerEventH == PointerEventAt(ClickHeights)

ViewViewshed ==
  \E e \in Known : Commit(viewViewshed(Cur, e))

EditViewshed ==
  \E e \in Known : Commit(editViewshed(Cur, e))

MoveCurrentViewshed ==
  \E b \in BOOLEAN :
    Commit(moveCurrentViewshed(Cur, b))

GeometryChangedAt(H) ==
  /\ Idle
  /\ geometryListener
  /\ \E h \in H : Commit(geometryChanged(Cur, h))

GeometryChanged == GeometryChangedAt(GroundHeights)

GeometryChangedH == GeometryChangedAt(ClickHeights)

SessionStopped ==
  /\ Idle
  /\ currentEditSession # "none"
  /\ Commit(sessionStop(Cur))

PersistCurrent ==
  /\ Cardinality(collection \cup ({currentViewshed} \ {0})) <= MaxEnts - 1
  /\ Commit(persistCurrent(Cur))

SetupMultiSelect == Commit(setupMultiSelect(Cur))

Stop ==
  \E clear \in BOOLEAN : Commit(stop(Cur, clear))

ChangeHeightMode ==
  \E hm \in HeightModes :
    /\ Len(queries) < MaxQueries
    /\ Commit(changeHeightMode(Cur, hm))

TerrainResolved ==
  /\ Idle
  /\ queries # <<>>
  /\ \E t \in TerrainHeights : Commit(terrainResolved(Cur, t))

VisibilityChanged ==
  \E item \in collection :
    /\ Idle
    /\ Commit(visibilityChangedListener(Cur, item))

\* The user removes an item from the list: the collection drops it and
\* raises 'removed'.
RemoveItem ==
  \E item \in collection :
    /\ Idle
    /\ Commit(removedListener([Cur EXCEPT !.collection = @ \ {item},
                                       !.selection = @ \ {item},
                                       !.visible[item] = FALSE], item))

MapActivated ==
  \E m \in Maps :
    /\ Idle
    /\ m # activeMap
    /\ Commit(mapActivatedListener([Cur EXCEPT !.activeMap = m], m))

\* Another consumer installs its own shadow map on the active map, or
\* restores the default one.
ExternalShadowMap ==
  /\ Idle
  /\ activeMap \in CesiumMaps
  /\ shadow[activeMap] # -1
  /\ Commit(setShadowMap(Cur, activeMap, -1))

ExternalDefaultShadowMap ==
  \E m \in CesiumMaps :
    /\ Idle
    /\ shadow[m] = -1
    /\ Commit(setDefaultShadowMap(Cur, m))

\* Another consumer takes, or gives back, the exclusive interaction slot.
ExternalExclusive ==
  /\ Idle
  /\ excl # "other"
  /\ Commit(addExclusiveInteraction(Cur, "other"))

ExternalExclusiveRemoved ==
  /\ Idle
  /\ excl = "other"
  /\ Commit(removeExclusiveInteraction(Cur, "other"))

InitState(am, c) ==
  [ents |-> [e \in Ents |-> NoViewshed],
   shadow |-> [m \in CesiumMaps |-> 0],
   listeners |-> [m \in CesiumMaps |-> <<>>],
   activeMap |-> am, currentViewshed |-> 0, currentIsPersisted |-> "null",
   mode |-> "null", heightMode |-> "absolute", removeInteraction |-> "noop",
   currentEditSession |-> "none", mgrListener |-> "none", inter |-> NoInteraction,
   excl |-> "none", pending |-> <<>>, queries |-> <<>>, collection |-> {},
   visible |-> [e \in Ents |-> FALSE], selection |-> {},
   proxyLayer |-> FALSE, geometryListener |-> FALSE, cached |-> c, applied |-> FALSE,
   err |-> FALSE, depth |-> 0, left |-> {}, lost |-> FALSE, dirty |-> FALSE,
   teardowns |-> 0, overlap |-> FALSE, orphans |-> {}, positionChanged |-> 0,
   positioned |-> 0, finished |-> 0, lookAts |-> <<>>]

\* initialize (index.js:74-89): a cached state is applied at once when a map
\* is active already.
initialize(am, c) ==
  IF am # "none"
  THEN [activateCachedViewshed(InitState(am, c), am) EXCEPT !.applied = TRUE,
                                                            !.cached = NoState]
  ELSE InitState(am, c)

Start(n) ==
  /\ ents = n.ents
  /\ shadow = n.shadow
  /\ listeners = n.listeners
  /\ activeMap = n.activeMap
  /\ currentViewshed = n.currentViewshed
  /\ currentIsPersisted = n.currentIsPersisted
  /\ mode = n.mode
  /\ heightMode = n.heightMode
  /\ removeInteraction = n.removeInteraction
  /\ currentEditSession = n.currentEditSession
  /\ mgrListener = n.mgrListener
  /\ inter = n.inter
  /\ excl = n.excl
  /\ pending = n.pending
  /\ queries = n.queries
  /\ collection = n.collection
  /\ visible = n.visible
  /\ selection = n.selection
  /\ proxyLayer = n.proxyLayer
  /\ geometryListener = n.geometryListener
  /\ cached = n.cached
  /\ applied = n.applied

Init ==
  \E am \in Maps \cup {"none"}, c \in PluginStates : Start(initialize(am, c))

Next ==
  \/ CreateViewshed
  \/ CreateViewshedResume
  \/ PointerEvent
  \/ ViewViewshed
  \/ EditViewshed
  \/ MoveCurrentViewshed
  \/ GeometryChanged
  \/ SessionStopped
  \/ PersistCurrent
  \/ SetupMultiSelect
  \/ Stop
  \/ VisibilityChanged
  \/ RemoveItem
  \/ MapActivated
  \/ ExternalShadowMap
  \/ ExternalDefaultShadowMap
  \/ ExternalExclusive
  \/ ExternalExclusiveRemoved

Spec == Init /\ [][Next]_vars

\* The height-mode machinery: the manager on an active Cesium map with one
\* imported item in the collection (viewshedCategory.js:141, an inactive
\* Viewshed built from its options), pointer positions at several heights,
\* changeHeightMode and the terrain query.
InitHeight ==
  \E off \in {0, defaultHeightOffset} :
    LET b == InitState("c1", NoState)
        n == [b EXCEPT !.ents[1] = NewViewshed("cone", off, 1), !.collection = {1},
                       !.applied = TRUE]
    IN Start(n)

NextHeight ==
  \/ CreateViewshed
  \/ CreateViewshedResume
  \/ PointerEventH
  \/ ViewViewshed
  \/ EditViewshed
  \/ MoveCurrentViewshed
  \/ GeometryChangedH
  \/ SetupMultiSelect
  \/ Stop
  \/ ChangeHeightMode
  \/ TerrainResolved

SpecHeight == InitHeight /\ [][NextHeight]_vars

\* The category on its own: items of both kinds are persisted (a new Viewshed
\* handed to add), imported with the title their options carry, renamed and
\* removed.  A title n > 0 of an item is the text "<kind>-<n>" with the
\* item's own kind, a title -n < 0 is "<kind>-<n>" with the other kind, and
\* 0 is a title of another form.
Items == 1..MaxItems

Titles == (0 - MaxForeign)..MaxTitle

InitTitle ==
  Start([InitState("c1", NoState) EXCEPT !.ents = [e \in Items |-> NoViewshed],
                                         !.visible = [e \in Items |-> FALSE]])

CommitCategory(n) ==
  /\ ents' = n.ents
  /\ collection' = n.collection
  /\ UNCHANGED <<shadow, listeners, activeMap, currentViewshed, currentIsPersisted,
                 mode, heightMode, removeInteraction, currentEditSession, mgrListener,
                 inter, excl, pending, queries, visible, selection, proxyLayer,
                 geometryListener, cached, applied>>

FreeItem == CHOOSE e \in Items : ~ents[e].alloc /\ \A x \in Items : ~ents[x].alloc => e <= x

AddViewshed ==
  \E type \in ViewshedTypes :
    /\ \E e \in Items : ~ents[e].alloc
    /\ CommitCategory(add([Cur EXCEPT !.ents[FreeItem] = NewViewshed(type, 0, 0)], FreeItem))

ImportViewshed ==
  \E type \in ViewshedTypes, title \in Titles :
    /\ \E e \in Items : ~ents[e].alloc
    /\ CommitCategory(importViewshed(Cur, FreeItem, type, title))

\* The removed Viewshed is referred to by nothing and reclaimed.
RemoveViewshed ==
  \E e \in collection : CommitCategory([remove(Cur, e) EXCEPT !.ents[e] = NoViewshed])

TitleChanged ==
  \E e \in collection, title \in Titles : CommitCategory(titleChanged(Cur, e, title))

NextTitle ==
  \/ AddViewshed
  \/ ImportViewshed
  \/ RemoveViewshed
  \/ TitleChanged

SpecTitle == InitTitle /\ [][NextTitle]_vars

\* The Viewshed class on its own, used without the manager: an object is
\* constructed, activated on a map (c1 and c2 have a scene, c0 has none),
\* deactivated and positioned, and other consumers replace and restore the
\* shadow maps.
EntityMaps == SceneMaps \cup {"c0"}

CoordLengths == {2, 3}

Coords == [len : CoordLengths, numeric : BOOLEAN, h : GroundHeights]

InitEntity ==
  Start([InitState("none", NoState) EXCEPT !.shadow = [m \in SceneMaps |-> 0],
                                           !.listeners = [m \in SceneMaps |-> <<>>]])

CommitEntity(n) ==
  /\ ents' = n.ents
  /\ shadow' = n.shadow
  /\ listeners' = n.listeners
  /\ UNCHANGED <<activeMap, currentViewshed, currentIsPersisted, mode, heightMode,
                 removeInteraction, currentEditSession, mgrListener, inter, excl,
                 pending, queries, collection, visible, selection, proxyLayer,
                 geometryListener, cached, applied>>

Allocated == {e \in Ents : ents[e].alloc}

\* A listener can still be registered on map m.
CanListen(m) == m \in SceneMaps => Len(listeners[m]) < MaxListeners

\* new Viewshed(options)
EntityNew ==
  \E show \in BOOLEAN :
    /\ HasFree
    /\ Cardinality(Allocated) < MaxObjects
    /\ CommitEntity([Cur EXCEPT !.ents[FreshEnt(Cur)] =
                       [NewViewshed("cone", 0, 0) EXCEPT !.showPrimitive = show]])

\* ViewshedCategory._deserializeItem: new Viewshed(item, cesiumMap)
EntityDeserialize ==
  \E show \in BOOLEAN :
    /\ HasFree
    /\ CanListen("c1")
    /\ CommitEntity(activate([Cur EXCEPT !.ents[FreshEnt(Cur)] =
                                [NewViewshed("cone", 0, 1) EXCEPT !.showPrimitive = show]],
                             FreshEnt(Cur), "c1"))

EntityActivate ==
  \E e \in Allocated, m \in EntityMaps :
    /\ CanListen(m)
    /\ CommitEntity(activate(Cur, e, m))

EntityDeactivate ==
  \E e \in Allocated : CommitEntity(deactivate(Cur, e))

EntityPosition ==
  \E e \in Allocated, coords \in Coords : CommitEntity(position(Cur, e, coords))

EntityShowPrimitive ==
  \E e \in Allocated, value \in BOOLEAN : CommitEntity(setShowPrimitive(Cur, e, value))

\* Another consumer installs its shadow map on a map, or restores the default.
EntityShadowReplaced ==
  \E m \in SceneMaps :
    /\ shadow[m] # -1
    /\ CommitEntity(setShadowMap(Cur, m, -1))

EntityShadowDefault ==
  \E m \in SceneMaps :
    /\ shadow[m] = -1
    /\ CommitEntity(setDefaultShadowMap(Cur, m))

\* An inactive Viewshed nothing refers to is reclaimed.
EntityReleased ==
  \E e \in Allocated :
    /\ ~ents[e].active
    /\ \A m \in SceneMaps :
         shadow[m] # e /\ \A i \in 1..Len(listeners[m]) : listeners[m][i] # e
    /\ CommitEntity([Cur EXCEPT !.ents[e] = NoViewshed])

NextEntity ==
  \/ EntityNew
  \/ EntityActivate
  \/ EntityDeactivate
  \/ EntityPosition
  \/ EntityShowPrimitive
  \/ EntityShadowReplaced
  \/ EntityShadowDefault
  \/ EntityReleased

SpecEntity == InitEntity /\ [][NextEntity]_vars

\* The category's deserializer: every persisted item is constructed with the
\* first Cesium map, which activates it, without the manager taking part.
NextItems ==
  \/ EntityDeserialize
  \/ EntityDeactivate
  \/ EntityPosition
  \/ EntityShowPrimitive
  \/ EntityShadowReplaced
  \/ EntityShadowDefault
  \/ EntityReleased

SpecItems == InitEntity /\ [][NextItems]_vars

\* ------------------------------------------------- the entity's parameters
\* The numeric parameters of a Viewshed.  Distances are whole metres.  Angles
\* handed to the setters (degrees) are counted in steps of 30 degrees and the
\* angles stored, serialized and taken by the constructor (radians) in steps
\* of PI / 12, so that one step of degrees is two steps of radians.
MIN_DISTANCE == 10
PI == 12
RADIANS_PER_DEGREE == 2

Distances == {0} \cup ((MIN_DISTANCE - 1) .. (MIN_DISTANCE + MaxBeyond))
Degrees == 0..MaxDegrees
Rolls == 0..MaxRoll
CssColors == {"", "#3333331A"}

getDefaultOptions ==
  [frustum |-> [fov |-> PI \div 3, near |-> 1, aspectRatio |-> 1, far |-> 300],
   shadowColor |-> "#3333331A", visibleColor |-> "#FF990080",
   orientation |-> [heading |-> 0, pitch |-> 0, roll |-> 0]]

\* JavaScript's a || b on numbers: b when a is falsy.  (An option that is
\* absent is undefined, which is falsy as 0 is.)
orElse(a, b) == IF a = 0 THEN b ELSE a

\* Color.fromCssColorString(css || default): the color is kept as the
\* lower-case hex string that Color.toCssHexString prints for it.
toCssHexString(css) ==
  IF css = "#3333331A" THEN "#3333331a"
  ELSE IF css = "#FF990080" THEN "#ff990080"
  ELSE css

fromCssColorString(css, default) == toCssHexString(IF css = "" THEN default ELSE css)

\* The options a caller or a snapshot passes to the constructor.
ViewshedOptions ==
  [viewshedType : ViewshedTypes,
   position : {[len |-> 3, numeric |-> TRUE, h |-> 0]},
   frustumOptions : [fov : {0, RADIANS_PER_DEGREE}, far : {0, MIN_DISTANCE - 1, MIN_DISTANCE + 1},
                     near : {0, 2}, aspectRatio : {1}],
   orientation : [heading : {0}, pitch : {0}, roll : Rolls],
   colorOptions : [visibleColor : CssColors, shadowColor : {""}],
   showPrimitive : {FALSE},
   heightOffset : {0},
   title : {0, 1}]

\* new Viewshed(options), without a map (viewshed.js:107).
Viewshed(options) ==
  [NewViewshed(options.viewshedType, orElse(options.heightOffset, 0), options.title)
     EXCEPT !.showPrimitive = options.showPrimitive,
            !.posH = options.position.h, !.posLen = options.position.len]
  @@ [frustumOptions |->
        [fov |-> orElse(options.frustumOptions.fov, getDefaultOptions.frustum.fov),
         far |-> orElse(options.frustumOptions.far, getDefaultOptions.frustum.far),
         near |-> orElse(options.frustumOptions.near, getDefaultOptions.frustum.near),
         aspectRatio |-> orElse(options.frustumOptions.aspectRatio,
                            getDefaultOptions.frustum.aspectRatio)],
      headingPitchRollValues |-> options.orientation,
      colors |-> [visibleColor |-> fromCssColorString(options.colorOptions.visibleColor,
                                                    getDefaultOptions.visibleColor),
                  shadowColor |-> fromCssColorString(options.colorOptions.shadowColor,
                                                   getDefaultOptions.shadowColor)],
      camera |-> getDefaultOptions.orientation]

toJSON(v) ==
  [viewshedType |-> v.type,
   position |-> [len |-> v.posLen, numeric |-> TRUE, h |-> v.posH],
   frustumOptions |-> v.frustumOptions,
   orientation |-> v.headingPitchRollValues,
   colorOptions |-> v.colors,
   showPrimitive |-> v.showPrimitive,
   heightOffset |-> v.heightOffset,
   title |-> v.title]

\* getState (index.js:144).  The state is given by its mode m ("none" when
\* the state is empty) and its snapshot cv (<<>> when there is none); with
\* forUrl and a title in the snapshot, Object.keys(state.properties) reads a
\* property the state object does not have and throws.
getState(s, forUrl) ==
  IF s.mode \notin {"null", "create"} /\ s.currentViewshed # 0
  THEN [err |-> forUrl /\ s.ents[s.currentViewshed].title # 0,
        m |-> s.mode, cv |-> <<toJSON(s.ents[s.currentViewshed])>>]
  ELSE [err |-> FALSE, m |-> "none", cv |-> <<>>]

\* activateCachedViewshed (index.js:75) for a state returned by getState:
\* new Viewshed(state.cv) is viewed if the state's mode is VIEW and edited
\* otherwise.
activateCachedState(s, state, map) ==
  IF state.m # "none" /\ state.cv # <<>> /\ map \in CesiumMaps
  THEN IF state.m = "view"
       THEN viewViewshed([s EXCEPT !.ents[FreshEnt(s)] = Viewshed(state.cv[1])], FreshEnt(s))
       ELSE editViewshed([s EXCEPT !.ents[FreshEnt(s)] = Viewshed(state.cv[1])], FreshEnt(s))
  ELSE s

\* this._shadowCamera.setView({ orientation }) where there is a camera.
setView(s, e, orientation) ==
  IF ~s.err /\ s.ents[e].cam THEN [s EXCEPT !.ents[e].camera = orientation] ELSE s

\* The position setter and activate, with the orientation they give the
\* camera: the position setter (which activate calls) applies
\* this._headingPitchRollValues as it is (viewshed.js:237).
positionView(s, e, coords) ==
  setView(position(s, e, coords), e, s.ents[e].headingPitchRollValues)

activateView(s, e, m) ==
  setView(activate(s, e, m), e, s.ents[e].headingPitchRollValues)

\* The distance setter (viewshed.js:287).
distanceAnyValue(s, e, value) ==
  setDistance([s EXCEPT !.ents[e].frustumOptions.far = value], e)

distance(s, e, value) ==
  setDistance([s EXCEPT !.ents[e].frustumOptions.far =
                 IF value > MIN_DISTANCE THEN value ELSE MIN_DISTANCE], e)

\* The fov, heading and pitch setters (viewshed.js:311, 336, 365); what they
\* do to the shadow map and the marker is what the distance setter does.
fov(s, e, value) ==
  setDistance([s EXCEPT !.ents[e].frustumOptions.fov = value * RADIANS_PER_DEGREE], e)

\* (The heading setter hands the camera a roll of 0 and the camera's pitch;
\* the pitch setter turns the camera by the difference to its pitch.)
orient(s, e, orientation) ==
  IF s.ents[e].cam THEN setDistancePrimitive(setView(s, e, orientation), e) ELSE s

heading(s, e, value) ==
  orient([s EXCEPT !.ents[e].headingPitchRollValues.heading = value * RADIANS_PER_DEGREE],
         e, [heading |-> value * RADIANS_PER_DEGREE, pitch |-> s.ents[e].camera.pitch,
             roll |-> 0])

pitch(s, e, value) ==
  orient([s EXCEPT !.ents[e].headingPitchRollValues.pitch = value * RADIANS_PER_DEGREE],
         e, [s.ents[e].camera EXCEPT !.pitch = value * RADIANS_PER_DEGREE])

\* The targets of lookAt are the points d metres east of the apex at the
\* apex's height, so that d is their distance from the apex and d = 0 is the
\* apex itself.  A camera aimed east has heading PI / 2 and pitch 0.
aimed == [heading |-> PI \div 2, pitch |-> 0, roll |-> 0]

lookAtAimAnyType(s, e, d) ==
  IF d # 0
  THEN [setView(s, e, aimed) EXCEPT !.ents[e].headingPitchRollValues.heading = aimed.heading,
                                    !.ents[e].headingPitchRollValues.pitch = aimed.pitch]
  ELSE s

\* lookAt: the orientation is taken over from the aimed camera.
lookAtAim(s, e, d) ==
  IF s.ents[e].type = "cone" /\ d # 0
  THEN [setView(s, e, aimed) EXCEPT !.ents[e].headingPitchRollValues.heading = aimed.heading,
                                    !.ents[e].headingPitchRollValues.pitch = aimed.pitch]
  ELSE s

lookAtTarget(s, e, d) ==
  IF s.err \/ ~s.ents[e].cam THEN s
  ELSE updatePrimitive(lookAtAim(distance(s, e, d), e, d), e)

\* One Viewshed object used through its constructor, its setters, lookAt and
\* toJSON: it is constructed from options, bound to the map c1, changed, and
\* destroyed and replaced by the object constructed from its snapshot.
InitFrustum ==
  \E options \in ViewshedOptions :
    Start([InitState("none", NoState)
             EXCEPT !.shadow = [m \in SceneMaps |-> 0],
                    !.listeners = [m \in SceneMaps |-> <<>>],
                    !.ents = [e \in Ents |-> IF e = 1 THEN Viewshed(options) ELSE NoViewshed]])

NextFrustum ==
  \/ CanListen("c1") /\ CommitEntity(activateView(Cur, 1, "c1"))
  \/ \E value \in Distances : CommitEntity(distance(Cur, 1, value))
  \/ \E value \in Degrees : CommitEntity(fov(Cur, 1, value))
  \/ \E value \in Degrees : CommitEntity(heading(Cur, 1, value))
  \/ \E value \in Degrees : CommitEntity(pitch(Cur, 1, value))
  \/ \E coords \in Coords : CommitEntity(positionView(Cur, 1, coords))
  \/ \E d \in Distances : CommitEntity(lookAtTarget(Cur, 1, d))
  \/ CommitEntity([destroy(Cur, 1) EXCEPT !.ents[1] = Viewshed(toJSON(ents[1]))])

SpecFrustum == InitFrustum /\ [][NextFrustum]_vars

TypeOK ==
  /\ currentViewshed \in Ents \cup {0}
  /\ mode \in ViewshedPluginModes \cup {"null"}
  /\ heightMode \in HeightModes
  /\ removeInteraction \in {"noop", "create", "move"}
  /\ excl \in {"none", "create", "session", "other"}
  /\ collection \subseteq Ents

\* ---------------------------------------------------------------- claims
\* The entities that are active.
Active == {e \in Ents : ents[e].active}

\* What each operation of the manager's API returns when it is called in the
\* current state.
ManagerOutcomes ==
  {createViewshedCall(Cur, t) : t \in CreateTypes}
  \cup (IF pending # <<>> /\ HasFree THEN {createViewshedResume(Cur)} ELSE {})
  \cup {viewViewshed(Cur, e) : e \in Known}
  \cup {editViewshed(Cur, e) : e \in Known}
  \cup {moveCurrentViewshed(Cur, b) : b \in BOOLEAN}
  \cup {persistCurrent(Cur), setupMultiSelect(Cur)}
  \cup {stop(Cur, c) : c \in BOOLEAN}
  \cup {visibilityChangedListener(Cur, item) : item \in collection}

\* C1: under every sequence of manager operations at most one entity is
\* active in every reachable state, and no manager operation activates an
\* entity at a moment when another entity is still active: the entity that
\* was current has been deactivated before the new one is activated.
C1_AtMostOneActive ==
  /\ Cardinality(Active) <= 1
  /\ \A r \in ManagerOutcomes : ~r.overlap /\ Cardinality({e \in Ents : r.ents[e].active}) <= 1

\* C1 witness: an entity A is current and active, and viewViewshed(B) for a
\* different entity B ends with B active and A inactive.
C1_Witness ==
  /\ currentViewshed # 0
  /\ ents[currentViewshed].active
  /\ \E b \in Known \ {currentViewshed} :
       LET r == viewViewshed(Cur, b)
       IN ~r.err /\ r.ents[b].active /\ ~r.ents[currentViewshed].active
          /\ r.currentViewshed = b

\* C2: a terrain query issued by changeHeightMode(RELATIVE) in EDIT whose
\* entity is no longer the current one when the result arrives (the current
\* entity was cleared or replaced) is discarded: the arrival changes no
\* entity's position and no entity's heightOffset.
C2_StaleQueryDiscarded ==
  (queries # <<>> /\ Head(queries).origin # currentViewshed) =>
    \A h \in TerrainHeights :
      LET r == terrainResolved(Cur, h)
      IN \A e \in Ents : /\ r.ents[e].posH = ents[e].posH
                          /\ r.ents[e].heightOffset = ents[e].heightOffset

\* createViewshed(t) run as a whole from the current state: the call, the
\* reclamation of what it left unreferenced, and the continuation at the end
\* of the tick with nothing in between.
createViewshedStopped(t) ==
  LET r0 == createViewshedCall(Cur, t) IN [r0 EXCEPT !.ents = Collected(r0)]

createViewshed(t) == createViewshedResume(createViewshedStopped(t))

\* createViewshed can be called here and run as a whole on an active Cesium map.
CanCreate ==
  /\ pending = <<>>
  /\ activeMap \in CesiumMaps
  /\ \E e \in Ents : ~createViewshedStopped("cone").ents[e].alloc

\* The manager holds no PositioningInteraction in state r.
NoPositioning(r) ==
  /\ r.removeInteraction # "create"
  /\ r.excl # "create"
  /\ r.inter = NoInteraction

\* C3: after createViewshed(kind) on an active Cesium map the manager is in
\* CREATE with a new entity without a title as current; a click with a world
\* position followed by a second click with a world position then leaves the
\* manager in EDIT with the same entity current, its marker enabled and no
\* PositioningInteraction attached.
C3_CreateThenTwoClicks ==
  CanCreate =>
    \A t \in CreateTypes, h1 \in GroundHeights, h2 \in GroundHeights :
      LET r1 == createViewshed(t)
          e  == r1.currentViewshed
          r3 == pipe(pipe(r1, TRUE, h1), TRUE, h2)
      IN /\ ~r1.err
         /\ r1.mode = "create"
         /\ e # 0 /\ ~createViewshedStopped(t).ents[e].alloc
         /\ r1.ents[e].title = 0 /\ r1.ents[e].active
         /\ r1.currentIsPersisted # "true"
         /\ r1.inter.exists /\ r1.inter.viewshed = e /\ r1.excl = "create"
         /\ ~r3.err
         /\ r3.mode = "edit"
         /\ r3.currentViewshed = e
         /\ r3.ents[e].showPrimitive /\ r3.ents[e].primitive # "none"
         /\ NoPositioning(r3)

\* C3 witness: the manager is in EDIT with a transient current entity whose
\* marker is shown and no PositioningInteraction, as the second click of a
\* creation leaves it, and createViewshed can run again from here.
C3_Witness ==
  /\ CanCreate
  /\ mode = "edit" /\ currentViewshed # 0 /\ currentIsPersisted # "true"
  /\ ents[currentViewshed].showPrimitive /\ ents[currentViewshed].title = 0
  /\ NoPositioning(Cur)
  /\ LET r1 == createViewshed("cone")
     IN pipe(pipe(r1, TRUE, 0), TRUE, 0).mode = "edit"

\* The program state held in a state record, without what was observed on
\* the way.
Observable(r) ==
  <<r.ents, r.shadow, r.listeners, r.activeMap, r.currentViewshed, r.currentIsPersisted,
    r.mode, r.heightMode, r.removeInteraction, r.currentEditSession, r.mgrListener,
    r.inter, r.excl, r.pending, r.queries, r.collection, r.visible, r.selection,
    r.proxyLayer, r.geometryListener, r.cached, r.applied>>

\* No edit session is attached in state r.
NoSession(r) ==
  /\ r.currentEditSession = "none"
  /\ r.removeInteraction # "move"
  /\ r.excl # "session"
  /\ ~r.proxyLayer /\ ~r.geometryListener

\* C4: from every reachable manager state stop() ends without an exception
\* in mode NULL with no current entity, currentIsPersisted cleared, no
\* PositioningInteraction and no edit session attached and the former current
\* entity inactive (a persisted one still in the collection); a second stop()
\* changes nothing.
C4_StopEndsNull ==
  \A clear \in BOOLEAN :
    LET r == stop(Cur, clear)
    IN /\ ~r.err
       /\ r.mode = "null"
       /\ r.currentViewshed = 0
       /\ r.currentIsPersisted = "null"
       /\ NoPositioning(r)
       /\ NoSession(r)
       /\ \A e \in Ents : ~r.ents[e].active
       /\ r.collection = collection
       /\ clear => r.selection = {}
       /\ Observable(stop(r, clear)) = Observable(r)

\* C4 witness: each kind of state stop() is called in (shown here for MOVE
\* with an active persisted entity and an edit session) is reached.
C4_Witness ==
  /\ mode = "move"
  /\ currentViewshed \in collection
  /\ ents[currentViewshed].active
  /\ currentEditSession # "none"
  /\ stop(Cur, TRUE).mode = "null"
  /\ ~stop(Cur, TRUE).ents[currentViewshed].active

\* C5: from every reachable manager state and on whatever map is active,
\* viewViewshed(e) returns with e current, e active and mode VIEW, and
\* editViewshed(e) returns with e current, e active and mode EDIT.
C5_ViewEditMakeCurrent ==
  \A e \in Known :
    LET v == viewViewshed(Cur, e)
        d == editViewshed(Cur, e)
    IN /\ ~v.err /\ v.currentViewshed = e /\ v.ents[e].active /\ v.mode = "view"
       /\ ~d.err /\ d.currentViewshed = e /\ d.ents[e].active /\ d.mode = "edit"

\* C6: the part of createViewshed after the one-tick defer always starts in
\* a manager state with mode NULL, no current entity and no interaction or
\* edit session attached, whatever ran between the call's stop() and the end
\* of the tick, and no manager operation overwrites a stored teardown
\* callback that has not been run.
C6_CreateStartsClean ==
  /\ (pending # <<>> /\ HasFree) => ~createViewshedResume(Cur).dirty
  /\ \A r \in ManagerOutcomes : ~r.lost

\* The manager is in MOVE with its edit session running.
InMove == mode = "move" /\ currentEditSession # "none" /\ removeInteraction = "move"

\* C7: in MOVE, the session raising 'stopped' and moveCurrentViewshed(false)
\* each run the MOVE teardown exactly once and without an exception
\* (geometry listener detached, session stopped, currentEditSession cleared,
\* proxy layer removed), and leave mode EDIT with the same entity current.
C7_MoveTeardownOnce ==
  mode = "move" =>
    /\ InMove
    /\ \A r \in {sessionStop(Cur), moveCurrentViewshed(Cur, FALSE)} :
         /\ ~r.err
         /\ r.teardowns = 1
         /\ r.depth = 0
         /\ NoSession(r)
         /\ r.mode = "edit"
         /\ r.currentViewshed = currentViewshed

\* C7 witness: the manager is in MOVE on a current entity with the session
\* holding the exclusive slot, and both triggers end in EDIT.
C7_Witness ==
  /\ InMove
  /\ currentViewshed # 0
  /\ excl = "session" /\ proxyLayer /\ geometryListener
  /\ sessionStop(Cur).mode = "edit"
  /\ moveCurrentViewshed(Cur, FALSE).mode = "edit"

\* What the activation of another map m leaves.
mapActivated(m) == mapActivatedListener([Cur EXCEPT !.activeMap = m], m)

\* Another consumer can replace the active map's shadow map while an entity
\* is current.
CanReplaceShadow ==
  /\ Idle
  /\ activeMap \in CesiumMaps
  /\ shadow[activeMap] # -1
  /\ currentViewshed # 0

\* The manager has stopped in r and the selection is the one it was.
StoppedKeepingSelection(r) ==
  /\ ~r.err
  /\ r.mode = "null"
  /\ r.currentViewshed = 0
  /\ r.selection = selection

\* C8 as stated: the activation of a different map, and the replacement of
\* the map's shadow map by another consumer while an entity is current, end
\* in mode NULL with no current entity and the selection unchanged.
C8_ExternalStopKeepsSelection ==
  /\ Idle => \A m \in Maps \ {activeMap} : StoppedKeepingSelection(mapActivated(m))
  /\ CanReplaceShadow => StoppedKeepingSelection(setShadowMap(Cur, activeMap, -1))

\* C8 amended: the activation of a different map performs stop(), which
\* clears the selection, and ends in NULL with no current entity unless this
\* is the first activation after an initialisation without an active map and
\* a cached state is re-applied on a Cesium map (the cached mode, the
\* restored entity current and active); the replacement of the shadow map by
\* another consumer while an entity is current ends in NULL with no current
\* entity and the selection unchanged.
C8_MapStopsClearingShadowStopsKeeping ==
  /\ Idle =>
       \A m \in Maps \ {activeMap} :
         LET r == mapActivated(m)
         IN /\ ~r.err
            /\ r.selection = {}
            /\ IF ~applied /\ cached.m # "none" /\ m \in CesiumMaps
               THEN /\ r.mode = cached.m
                    /\ r.currentViewshed # 0
                    /\ r.ents[r.currentViewshed].active
                    /\ r.ents[r.currentViewshed].title = cached.title
               ELSE r.mode = "null" /\ r.currentViewshed = 0
  /\ CanReplaceShadow => StoppedKeepingSelection(setShadowMap(Cur, activeMap, -1))

\* C8 witness: an item is selected and current on a Cesium map; activating
\* the other map clears the selection, the replacement of the shadow map
\* stops the manager and keeps it.
C8_Witness ==
  /\ CanReplaceShadow
  /\ selection # {}
  /\ mode = "edit"
  /\ \E m \in Maps \ {activeMap} :
       mapActivated(m).selection = {} /\ mapActivated(m).mode = "null"
  /\ setShadowMap(Cur, activeMap, -1).mode = "null"
  /\ setShadowMap(Cur, activeMap, -1).selection = selection

\* C8 witness of the restore: no map was active at initialisation and the
\* first activation of a Cesium map re-applies the cached state.
C8_RestoreReached ==
  /\ ~applied /\ cached.m # "none" /\ Idle
  /\ \E m \in CesiumMaps \ {activeMap} : mapActivated(m).mode = cached.m

\* C9: from every reachable manager state setupMultiSelect() returns
\* without an exception in mode MULTI_SELECT with no current entity, the
\* former current entity inactive and no interaction or edit session
\* attached.  (The collection listeners are removed by destroy() alone.)
C9_MultiSelectEntered ==
  LET r == setupMultiSelect(Cur)
  IN /\ ~r.err
     /\ r.mode = "multiSelect"
     /\ r.currentViewshed = 0
     /\ \A e \in Ents : ~r.ents[e].active
     /\ NoPositioning(r)
     /\ NoSession(r)

\* What the operations that switch away from the current entity return:
\* viewViewshed and editViewshed with a different entity, stop and
\* setupMultiSelect.
SwitchAwayOutcomes ==
  {viewViewshed(Cur, b) : b \in Known \ {currentViewshed}}
  \cup {editViewshed(Cur, b) : b \in Known \ {currentViewshed}}
  \cup {stop(Cur, c) : c \in BOOLEAN}
  \cup {setupMultiSelect(Cur)}

\* C10: when the manager switches away from its current entity, an entity
\* with a title is deactivated, stays in the collection and is marked not
\* visible, an entity without a title is destroyed, and the rule that
\* deactivateCurrentViewshed applies is the one of the entity it leaves.
C10_RuleAgreesWithTitle ==
  currentViewshed # 0 =>
    \A r \in SwitchAwayOutcomes :
      LET a == currentViewshed
      IN /\ ~r.err
         /\ ~r.ents[a].active
         /\ ents[a].title # 0 => a \in r.collection /\ ~r.visible[a]
         /\ r.left = {<<a, IF ents[a].title # 0 THEN "persisted" ELSE "transient">>}

\* C11: persistCurrent() with a current entity that is not in the collection
\* adds it to the collection with the generated title (the first number no
\* member of its kind carries), sets currentIsPersisted to true and marks the
\* item visible, and leaves mode, the current entity and its activation as
\* they were; with no current entity it changes nothing.
C11_PersistCurrent ==
  LET r == persistCurrent(Cur)
      a == currentViewshed
  IN /\ ~r.err
     /\ (a # 0 /\ a \notin collection) =>
          /\ r.collection = collection \cup {a}
          /\ r.ents[a].title = getTitleForViewshed(Cur, ents[a].type)
          /\ r.ents[a].title >= 1
          /\ \A x \in collection :
               ents[x].type = ents[a].type => ents[x].title # r.ents[a].title
          /\ r.currentIsPersisted = "true"
          /\ r.visible[a]
          /\ r.mode = mode
          /\ r.currentViewshed = a
          /\ r.ents[a].active = ents[a].active
     /\ a = 0 => Observable(r) = Observable(Cur)

\* C11 witness: a transient entity is current in EDIT while another item of
\* its kind is in the collection, and persistCurrent gives it the next title.
C11_Witness ==
  /\ currentViewshed # 0 /\ currentViewshed \notin collection
  /\ mode = "edit" /\ currentIsPersisted = "false"
  /\ collection # {}
  /\ persistCurrent(Cur).ents[currentViewshed].title = 2
  /\ persistCurrent(Cur).visible[currentViewshed]

\* The titles the members of the given kind carry.
TitlesOfKind(k) == {ents[x].title : x \in {y \in collection : ents[y].type = k}}

\* C12: getTitleForViewshed(kind, persisted) returns the smallest positive n
\* that no persisted entity of that kind carries as "<kind>-<n>" (3 after 1
\* and 2; 2 again once 2 was removed); the members of another kind do not
\* influence n; the probing ends after at most one step per member of the
\* kind.
C12_SmallestFreeTitle ==
  \A k \in ViewshedTypes :
    LET n == getTitleForViewshed(Cur, k)
    IN /\ n >= 1
       /\ n \notin TitlesOfKind(k)
       /\ \A m \in 1..(n - 1) : m \in TitlesOfKind(k)
       /\ n <= Cardinality({y \in collection : ents[y].type = k}) + 1
       /\ n = getTitleForViewshed(
                [Cur EXCEPT !.collection = {y \in collection : ents[y].type = k}], k)
       /\ TitlesOfKind(k) = {1, 2} => n = 3
       /\ TitlesOfKind(k) = {1, 3} => n = 2

\* C12 witness: cone-1 and cone-3 are persisted after cone-2 was removed, an
\* item of the other kind carries the number 2, and the next cone is cone-2.
C12_Witness ==
  /\ TitlesOfKind("cone") = {1, 3}
  /\ 2 \in TitlesOfKind("360")
  /\ getTitleForViewshed(Cur, "cone") = 2

\* C12 witness of the sequence: cone-1 and cone-2 are persisted and the next
\* cone is cone-3.
C12_ThirdReached ==
  /\ TitlesOfKind("cone") = {1, 2}
  /\ \E e \in Items : ~ents[e].alloc
  /\ add([Cur EXCEPT !.ents[FreeItem] = NewViewshed("cone", 0, 0)], FreeItem)
       .ents[FreeItem].title = 3

\* What a visibility toggle on item x has to leave.
Toggled(r, x) ==
  /\ ~r.err
  /\ IF currentViewshed = x
     THEN r.mode = "null" /\ ~r.ents[x].active /\ ~r.visible[x]
     ELSE /\ r.currentViewshed = x /\ r.ents[x].active
          /\ r.mode = "view" /\ r.visible[x]
          /\ currentViewshed # 0 => ~r.ents[currentViewshed].active

\* C13: a visibility toggle on a persisted item x ends, if x is the current
\* entity, in mode NULL with x inactive and shown as not visible, and
\* otherwise with x current, active, in mode VIEW and shown as visible and
\* the previously current entity no longer active.
C13_VisibilityToggle ==
  Idle => \A x \in collection : Toggled(visibilityChangedListener(Cur, x), x)

\* C14: moveCurrentViewshed(false) while no edit session is attached (mode
\* NULL, CREATE, VIEW, EDIT or MULTI_SELECT) raises no exception and leaves
\* the mode, the current entity and an attached PositioningInteraction (the
\* interaction, its place in the exclusive slot and its stored teardown) as
\* they were.
C14_MoveFalseIsNoOp ==
  (mode # "move" /\ NoSession(Cur)) =>
    LET r == moveCurrentViewshed(Cur, FALSE)
    IN /\ ~r.err
       /\ r.mode = mode
       /\ r.currentViewshed = currentViewshed
       /\ r.inter = inter
       /\ r.excl = excl
       /\ r.removeInteraction = removeInteraction

\* The manager is idle: mode NULL, no current entity, no interaction and no
\* edit session.
IdleManager ==
  /\ mode = "null"
  /\ currentViewshed = 0
  /\ NoPositioning(Cur)
  /\ NoSession(Cur)

\* C15: stop() on an idle manager raises no exception and changes neither
\* the mode, the current entity, currentIsPersisted, the height mode, the
\* interaction, the edit session nor any entity.
C15_StopWhenIdle ==
  IdleManager =>
    \A clear \in BOOLEAN :
      LET r == stop(Cur, clear)
      IN /\ ~r.err
         /\ r.mode = mode
         /\ r.currentViewshed = currentViewshed
         /\ r.currentIsPersisted = currentIsPersisted
         /\ r.heightMode = heightMode
         /\ r.inter = inter /\ r.excl = excl /\ r.removeInteraction = removeInteraction
         /\ r.currentEditSession = currentEditSession
         /\ r.proxyLayer = proxyLayer /\ r.geometryListener = geometryListener
         /\ r.ents = ents
         /\ r.collection = collection

\* C15 witness: the manager is idle again after an entity was persisted and
\* deactivated, and stop() returns in that state.
C15_Witness ==
  /\ IdleManager
  /\ collection # {}
  /\ \E e \in collection : ents[e].sm = "destroyed"
  /\ ~stop(Cur, TRUE).err
  /\ stop(Cur, TRUE).mode = "null"

\* The entities that are active on map m.
ActiveOn(m) == {e \in Ents : ents[e].active /\ ents[e].map = m}

\* C16: when an entity B is activated, without the manager, on a map on
\* which an entity A is active, A's shadowMapChanged listener deactivates A:
\* A is inactive when B's activate has returned, and no two entities are
\* active on one map.
C16_BindUnbindsOther ==
  /\ \A m \in SceneMaps : Cardinality(ActiveOn(m)) <= 1
  /\ \A b \in Allocated, m \in SceneMaps :
       \A a \in ActiveOn(m) \ {b} : ~activate(Cur, b, m).ents[a].active

\* Entity e is bound to map m in state r.
BoundTo(r, e, m) ==
  /\ r.ents[e].active /\ r.ents[e].map = m /\ r.ents[e].scene = m /\ r.ents[e].cam
  /\ r.ents[e].lmap = m /\ r.shadow[m] = e

\* C17: activate on a map without a scene throws and leaves an inactive
\* entity as it was (inactive, no map, scene or shadow camera, no listener
\* registered), and a later activate on a map with a scene binds it.
C17_FailedBindLeavesUnbound ==
  \A e \in Allocated :
    ~ents[e].active =>
      LET r == activate(Cur, e, "c0")
      IN /\ r.err
         /\ r.ents[e] = ents[e]
         /\ r.listeners = listeners
         /\ \A m \in SceneMaps :
              CanListen(m) => LET r2 == activate([r EXCEPT !.err = FALSE], e, m)
                              IN ~r2.err /\ BoundTo(r2, e, m)

\* C18: assigning a position that is not an array of three numbers (the
\* length is wrong or an element is not a number) throws before anything is
\* changed: the stored position stays, the shadow camera of an active entity
\* is not moved and no positionChanged notification is raised.
C18_MalformedPositionRejected ==
  \A e \in Allocated, coords \in Coords :
    (coords.len # 3 \/ ~coords.numeric) =>
      LET r == position(Cur, e, coords)
      IN /\ r.err
         /\ r.ents = ents
         /\ r.positionChanged = 0

\* Entity e has a listener registered on map m in state r.
ListensOn(r, e, m) == \E i \in 1..Len(r.listeners[m]) : r.listeners[m][i] = e

\* C19: activate(m2) on an entity that is active on another map m1 behaves
\* as deactivate() followed by activate(m2): m1 gets its default shadow map
\* back, the entity's marker is removed from m1's scene, its listener on m1
\* is removed and the entity is bound to m2 only.
C19_RebindIsUnbindThenBind ==
  \A e \in Allocated, m2 \in SceneMaps :
    (ents[e].active /\ ents[e].map \in SceneMaps \ {m2} /\ CanListen(m2)) =>
      LET m1 == ents[e].map
          r  == activate(Cur, e, m2)
      IN /\ ~r.err
         /\ Observable(r) = Observable(activate(deactivate(Cur, e), e, m2))
         /\ r.shadow[m1] # e
         /\ r.orphans = {}
         /\ ~ListensOn(r, e, m1)
         /\ BoundTo(r, e, m2)

\* What deactivate() has to leave of an entity e that was active.
Unbound(r, e) ==
  /\ r.ents[e].primitive = "none" /\ r.orphans = {}
  /\ \A m \in SceneMaps : ~ListensOn(r, e, m)
  /\ \A m \in SceneMaps : r.shadow[m] = IF shadow[m] = e THEN 0 ELSE shadow[m]
  /\ r.ents[e].map = "none" /\ r.ents[e].scene = "none" /\ ~r.ents[e].cam
  /\ ~r.ents[e].active

\* C20: deactivate() on an active entity removes its marker and its
\* listener, restores the default shadow map of its map exactly when the
\* scene's shadow map is the entity's, and clears map, scene and camera with
\* active = false, without an exception; on an inactive entity it changes
\* nothing, so that a second call changes nothing.
C20_DeactivateUnbinds ==
  \A e \in Allocated :
    LET r == deactivate(Cur, e)
    IN /\ ~r.err
       /\ ents[e].active => Unbound(r, e)
       /\ ~ents[e].active => Observable(r) = Observable(Cur)
       /\ Observable(deactivate(r, e)) = Observable(r)

\* The distance the distance setter is meant to store for a value.
Clamped(value) == IF value > MIN_DISTANCE THEN value ELSE MIN_DISTANCE

\* C21: the distance setter stores the value it is given when that is above
\* MIN_DISTANCE and MIN_DISTANCE otherwise, and never throws; after lookAt on
\* an entity that is bound (has a shadow camera) the distance is at least
\* MIN_DISTANCE, and it is exactly MIN_DISTANCE for a target at the apex.
C21_SetterAndLookAtClamp ==
  /\ \A value \in Distances :
       LET n == distance(Cur, 1, value)
       IN ~n.err /\ n.ents[1].frustumOptions.far = Clamped(value)
  /\ ents[1].cam =>
       \A d \in Distances :
         LET n == lookAtTarget(Cur, 1, d)
         IN /\ ~n.err
            /\ n.ents[1].frustumOptions.far >= MIN_DISTANCE
            /\ d = 0 => n.ents[1].frustumOptions.far = MIN_DISTANCE

\* A bound entity whose distance is MIN_DISTANCE, which no constructor
\* option gives it: a value that is not above it was set or looked at.
C21_Witness == ents[1].cam /\ ents[1].frustumOptions.far = MIN_DISTANCE

\* C22: the distance of an entity is at least MIN_DISTANCE in every state,
\* the state its constructor leaves it in included, whatever far value the
\* caller's frustum options or the snapshot carry.
C22_DistanceAtLeastMin == ents[1].frustumOptions.far >= MIN_DISTANCE

\* What the orientation-affecting calls return in the current state.
OrientationOutcomes ==
  {heading(Cur, 1, value) : value \in Degrees}
  \cup {pitch(Cur, 1, value) : value \in Degrees}
  \cup {lookAtTarget(Cur, 1, d) : d \in Distances}
  \cup {positionView(Cur, 1, coords) : coords \in {c \in Coords : c.numeric}}

\* C23: after the heading setter, the pitch setter, lookAt and the position
\* setter the roll of the entity's orientation is 0, and so is the roll of
\* the orientation toJSON reports, whatever roll the orientation passed to
\* the constructor had.
C23_RollIsZero ==
  \A n \in OrientationOutcomes :
    /\ n.ents[1].headingPitchRollValues.roll = 0
    /\ toJSON(n.ents[1]).orientation.roll = 0

\* C24: the entity constructed from an entity's toJSON() has the same
\* toJSON(): type, position, frustum options, orientation, colors,
\* showPrimitive and heightOffset are all identical.
C24_SnapshotRoundTrip == toJSON(Viewshed(toJSON(ents[1]))) = toJSON(ents[1])

\* C25: lookAt on a bound 360 entity sets the distance to the clamped
\* distance between apex and target and leaves heading and pitch as they
\* are; on a bound cone whose target is not the apex it sets the distance
\* and replaces heading and pitch by those of the camera aimed at the target.
C25_LookAtFrame ==
  ents[1].cam =>
    \A d \in Distances :
      LET n == lookAtTarget(Cur, 1, d)
      IN /\ n.ents[1].frustumOptions.far = Clamped(d)
         /\ ents[1].type = "360" =>
              n.ents[1].headingPitchRollValues = ents[1].headingPitchRollValues
         /\ (ents[1].type = "cone" /\ d # 0) =>
              /\ n.ents[1].headingPitchRollValues.heading = aimed.heading
              /\ n.ents[1].headingPitchRollValues.pitch = aimed.pitch
              /\ n.ents[1].headingPitchRollValues.roll = ents[1].headingPitchRollValues.roll

\* A bound cone that has the heading of a camera aimed at a target, which
\* only lookAt gives it.
C25_Witness ==
  /\ ents[1].cam
  /\ ents[1].type = "cone"
  /\ ents[1].headingPitchRollValues.heading = aimed.heading
  /\ ents[1].frustumOptions.far = MIN_DISTANCE + 1

\* The pointer events: moves and clicks that carry a world position, given
\* by its height, or none.
PointerEvents == [click : BOOLEAN, position : {<<>>} \cup {<<h>> : h \in ClickHeights}]

\* C26: of the events delivered to an interaction, the first click that
\* carries a world position raises positioned, once, and makes the next such
\* click the one that raises finished, once; no other event raises either,
\* so finished is never raised before positioned; after finished no event
\* is delivered any more, so none changes the entity or raises anything.
C26_PositionedThenFinished ==
  Deliverable(Cur) =>
    \A event \in PointerEvents :
      LET n == pipeEvent(Cur, event)
          hit == event.click /\ event.position # <<>>
      IN /\ ~n.err
         /\ n.positioned = (IF hit /\ ~inter.position THEN 1 ELSE 0)
         /\ n.finished = (IF hit /\ inter.position THEN 1 ELSE 0)
         /\ n.positioned = 1 => n.inter = [inter EXCEPT !.position = TRUE]
         /\ (inter.position /\ n.finished = 0) => n.inter = inter
         /\ n.finished = 1 =>
              /\ ~Deliverable(n)
              /\ \A next \in PointerEvents : pipeEvent(n, next) = n

\* C27: while the origin is awaited an event that carries a world position
\* assigns it to the entity's position and lookAt is not called, also when
\* the event is the click that commits the origin; while the target is
\* awaited such an event calls lookAt with the point and the position is not
\* assigned; an event without a world position changes nothing.
C27_OriginThenTarget ==
  Deliverable(Cur) =>
    \A event \in PointerEvents :
      LET n == pipeEvent(Cur, event)
          v == inter.viewshed
      IN IF event.position = <<>> THEN n = Cur
         ELSE IF ~inter.position
         THEN /\ ~n.err
              /\ n.ents[v].posH = event.position[1]
              /\ n.positionChanged = 1
              /\ n.lookAts = <<>>
         ELSE /\ ~n.err
              /\ n.lookAts = event.position
              /\ n.positionChanged = 0
              /\ n.ents[v].posH = ents[v].posH

\* What the events that end a PositioningInteraction return in the current
\* state: the second click, the explicit cancels and another consumer taking
\* the exclusive slot.
EndingOutcomes ==
  (IF inter.position /\ inter.active
   THEN {pipeEvent(Cur, [click |-> TRUE, position |-> <<h>>]) : h \in GroundHeights}
   ELSE {})
  \cup {stop(Cur, c) : c \in BOOLEAN}
  \cup {viewViewshed(Cur, e) : e \in Known}
  \cup {editViewshed(Cur, e) : e \in Known}
  \cup {setupMultiSelect(Cur), addExclusiveInteraction(Cur, "other")}

ApexHeight(r, e) == r.ents[e].posH + r.ents[e].heightOffset

\* C29: in EDIT, with no terrain query in flight, for an absolute entity
\* (height mode absolute, heightOffset 0) at position height H:
\* changeHeightMode(relative) followed by its query resolving with terrain
\* height T gives heightOffset H - T and position height T, and
\* changeHeightMode(absolute) after that gives position height H and
\* heightOffset 0 again; the apex is at height H throughout.
C29_HeightModeRoundTrip ==
  (/\ mode = "edit"
   /\ currentViewshed # 0
   /\ heightMode = "absolute"
   /\ ents[currentViewshed].heightOffset = 0
   /\ queries = <<>>) =>
    \A T \in TerrainHeights :
      LET e  == currentViewshed
          H  == ents[e].posH
          n1 == changeHeightMode(Cur, "relative")
          n2 == terrainResolved(n1, T)
          n3 == changeHeightMode(n2, "absolute")
      IN /\ ~n1.err /\ Len(n1.queries) = 1 /\ ApexHeight(n1, e) = H
         /\ ~n2.err /\ n2.heightMode = "relative"
         /\ n2.ents[e].heightOffset = H - T /\ n2.ents[e].posH = T
         /\ ApexHeight(n2, e) = H
         /\ ~n3.err /\ n3.heightMode = "absolute" /\ n3.queries = <<>>
         /\ n3.ents[e].posH = H /\ n3.ents[e].heightOffset = 0
         /\ ApexHeight(n3, e) = H

\* An entity in EDIT that a resolved terrain query has put below its apex
\* after it was switched to relative at ground height.
C29_Witness ==
  /\ mode = "edit"
  /\ heightMode = "relative"
  /\ queries = <<>>
  /\ currentViewshed # 0
  /\ ents[currentViewshed].heightOffset < 0
  /\ ApexHeight(Cur, currentViewshed) = 0

\* The heightOffset that goes with a height mode.
OffsetOf(hm) == IF hm = "absolute" THEN 0 ELSE defaultHeightOffset

\* C30: in CREATE changeHeightMode sets the current entity's heightOffset
\* at once to 0 (absolute) or the default offset of 1.8 m (relative) and
\* issues no terrain query, and createViewshed constructs the entity with
\* the offset of the height mode in force; so whenever the mode is CREATE
\* the current entity's heightOffset is the one of the height mode.
C30_CreateOffsetFollowsMode ==
  /\ (mode = "create" /\ currentViewshed # 0) =>
       /\ ents[currentViewshed].heightOffset = OffsetOf(heightMode)
       /\ \A hm \in HeightModes \ {heightMode} :
            LET n == changeHeightMode(Cur, hm)
            IN /\ n.queries = queries
               /\ n.ents[currentViewshed].heightOffset = OffsetOf(hm)
  /\ (pending # <<>> /\ HasFree /\ activeMap \in CesiumMaps) =>
       LET n == createViewshedResume(Cur)
       IN n.ents[n.currentViewshed].heightOffset = OffsetOf(heightMode)

\* The plugin with the entity of the parameter model handed to its manager
\* on the active Cesium map c1 so that the manager is in the given mode.
Live(m) ==
  LET base == [Cur EXCEPT !.activeMap = "c1"]
  IN CASE m = "view"        -> viewViewshed(base, 1)
       [] m = "edit"        -> editViewshed(base, 1)
       [] m = "move"        -> moveCurrentViewshed(editViewshed(base, 1), TRUE)
       [] m = "multiSelect" -> setupMultiSelect(base)
       [] m = "create"      -> createViewshedResume(createViewshedCall(base, "cone"))
       [] OTHER             -> base

\* A plugin that has just been initialized on the active Cesium map c1.
FreshPlugin ==
  [InitState("c1", NoState) EXCEPT !.shadow = [m \in SceneMaps |-> 0],
                                   !.listeners = [m \in SceneMaps |-> <<>>]]

\* C31: the state getState() returns in VIEW or EDIT with a current entity,
\* handed to a fresh plugin on an active Cesium map, gives the same mode and
\* a current, active entity whose toJSON() equals the saved snapshot; a state
\* taken in MOVE gives EDIT; the state taken in NULL, CREATE or MULTI_SELECT
\* is empty and restores nothing.
C31_StateRestores ==
  /\ \A m \in {"view", "edit", "move"} :
       LET saved == getState(Live(m), FALSE)
           fresh == activateCachedState(FreshPlugin, saved, "c1")
           e     == fresh.currentViewshed
       IN /\ ~Live(m).err /\ Live(m).mode = m
          /\ ~saved.err /\ saved.m = m
          /\ ~fresh.err
          /\ fresh.mode = (IF m = "view" THEN "view" ELSE "edit")
          /\ e # 0
          /\ fresh.ents[e].active
          /\ toJSON(fresh.ents[e]) = saved.cv[1]
  /\ \A m \in {"null", "create", "multiSelect"} :
       LET saved == getState(Live(m), FALSE)
       IN /\ Live(m).mode = m
          /\ saved.m = "none" /\ saved.cv = <<>>
          /\ activateCachedState(FreshPlugin, saved, "c1") = FreshPlugin

\* C40: getState(true) in VIEW, EDIT or MOVE with a current entity that has
\* a title returns, without throwing, the mode and the entity's snapshot
\* without the title; in NULL and CREATE it returns the empty state.
C40_UrlStateDropsTitle ==
  /\ \A m \in {"view", "edit", "move"} :
       LET saved == getState(Live(m), TRUE)
       IN ents[1].title # 0 =>
            /\ ~saved.err
            /\ saved.m = m
            /\ saved.cv = <<[toJSON(Live(m).ents[1]) EXCEPT !.title = 0]>>
  /\ \A m \in {"null", "create"} :
       LET saved == getState(Live(m), TRUE)
       IN ~saved.err /\ saved.m = "none" /\ saved.cv = <<>>


\* The edit session moveCurrentViewshed starts for a height mode.
SessionFor(hm) == IF hm = "absolute" THEN "features" ELSE "geometry"

\* C32: moveCurrentViewshed(true) with a current entity enters MOVE with a
\* feature-translate session if heightMode is ABSOLUTE and a geometry-edit
\* session if it is RELATIVE; in every reachable MOVE state the kind of the
\* running session matches heightMode, and a height-mode change in MOVE ends
\* the session and returns to EDIT before the height update is applied.
C32_SessionMatchesHeightMode ==
  /\ mode = "move" => currentEditSession = SessionFor(heightMode)
  /\ currentViewshed # 0 =>
       LET n == moveCurrentViewshed(Cur, TRUE)
       IN ~n.err => /\ n.mode = "move"
                    /\ n.currentEditSession = SessionFor(heightMode)
                    /\ n.heightMode = heightMode
  /\ mode = "move" =>
       \A hm \in HeightModes \ {heightMode} :
         LET n == changeHeightMode(Cur, hm)
         IN ~n.err => /\ n.mode = "edit"
                      /\ n.currentEditSession = "none"
                      /\ n.heightMode = hm

C32_Witness ==
  /\ mode = "move"
  /\ heightMode = "relative"
  /\ currentEditSession = "geometry"
  /\ ~changeHeightMode(Cur, "absolute").err
  /\ changeHeightMode(Cur, "absolute").mode = "edit"


\* The height mode changeMode derives from an entity's heightOffset.
ModeOfOffset(off) == IF off # 0 THEN "relative" ELSE "absolute"

\* C33: viewViewshed/editViewshed given an entity other than the current one
\* sets heightMode to RELATIVE if that entity's heightOffset is nonzero and
\* to ABSOLUTE otherwise; given the current entity they leave heightMode
\* unchanged.
C33_HeightModeFollowsEntity ==
  \A e \in Known :
    \A n \in {viewViewshed(Cur, e), editViewshed(Cur, e)} :
      n.heightMode = IF currentViewshed # e THEN ModeOfOffset(ents[e].heightOffset)
                     ELSE heightMode

\* An entity with an offset is about to replace a current one without, and
\* the current one can be handed in again while the mode is RELATIVE.
C33_Witness ==
  /\ heightMode = "absolute"
  /\ currentViewshed # 0
  /\ \E e \in Known : /\ e # currentViewshed
                      /\ ents[e].heightOffset # 0
                      /\ ~editViewshed(Cur, e).err
                      /\ editViewshed(Cur, e).heightMode = "relative"


\* C34: between manager operations, on any kind of active map, a mode of
\* CREATE, VIEW, EDIT or MOVE implies that a current entity exists, and a
\* mode of NULL or MULTI_SELECT implies that there is none.
C34_ModeAndCurrentEntity ==
  /\ mode \in {"create", "view", "edit", "move"} => currentViewshed # 0
  /\ mode \in {"null", "multiSelect"} => currentViewshed = 0


\* C35: between manager operations currentEditSession is non-null exactly
\* when the mode is MOVE, and the reposition proxy layer with its geometry
\* listener exists exactly then, also when the deferred part of
\* createViewshed runs after a MOVE session was started during its tick.
C35_SessionExactlyInMove ==
  /\ currentEditSession # "none" <=> mode = "move"
  /\ proxyLayer <=> mode = "move"
  /\ geometryListener <=> mode = "move"


\* A MOVE session was started during the tick of createViewshed, whose
\* deferred part ends it when it takes the exclusive-interaction slot.
C35_Witness ==
  /\ pending # <<>>
  /\ mode = "move"
  /\ currentEditSession # "none"
  /\ proxyLayer
  /\ ~createViewshedResume(Cur).err
  /\ createViewshedResume(Cur).mode = "create"
  /\ createViewshedResume(Cur).currentEditSession = "none"
  /\ ~createViewshedResume(Cur).proxyLayer


\* C36: whenever the mode is EDIT or MOVE and heightMode is ABSOLUTE, the
\* heightOffset of the current entity is 0, for every sequence of
\* changeHeightMode, viewViewshed/editViewshed and terrain results.
C36_AbsoluteMeansNoOffset ==
  (mode \in {"edit", "move"} /\ heightMode = "absolute" /\ currentViewshed # 0)
    => ents[currentViewshed].heightOffset = 0


\* The current entity is bound and its shadow map is the scene's.
CurrentBound ==
  /\ mode = "edit"
  /\ currentViewshed # 0
  /\ ents[currentViewshed].active
  /\ ents[currentViewshed].cam

\* What a change of range, field of view or heightOffset of the current
\* entity leads to.
ParameterChanges ==
  {setDistance(Cur, currentViewshed), setFov(Cur, currentViewshed)}
    \cup {setHeightOffset(Cur, currentViewshed, off) : off \in {0, defaultHeightOffset}}

\* C37: changing range, field of view or heightOffset of the current bound
\* entity while the manager is in EDIT leaves the entity active and the
\* manager in EDIT with the same current entity: neither the entity's nor
\* the manager's replacement listener reacts to the entity's own
\* resynchronization.
C37_OwnResyncIsNoReplacement ==
  CurrentBound =>
    \A n \in ParameterChanges :
      /\ ~n.err
      /\ n.mode = "edit"
      /\ n.currentViewshed = currentViewshed
      /\ n.ents[currentViewshed].active
      /\ n.ents[currentViewshed].sm = "live"
      /\ n.shadow[ents[currentViewshed].scene] = currentViewshed
      /\ n.listeners = listeners

\* Both replacement listeners are registered on the surface of the bound
\* current entity.
C37_Witness ==
  /\ CurrentBound
  /\ ents[currentViewshed].lmap = ents[currentViewshed].map
  /\ mgrListener = ents[currentViewshed].map
  /\ Len(listeners[ents[currentViewshed].map]) = 2
  /\ shadow[ents[currentViewshed].scene] = currentViewshed


\* C38: whenever currentIsPersisted is true the current entity has a title
\* and is a member of the collection, and whenever the mode is CREATE
\* currentIsPersisted is not true.
C38_PersistedFlagMeansListed ==
  /\ currentIsPersisted = "true" =>
       /\ currentViewshed # 0
       /\ ents[currentViewshed].title # 0
       /\ currentViewshed \in collection
  /\ mode = "create" => currentIsPersisted # "true"


\* The text of the title t carried by an item of the given kind: the kind
\* and number it names, or free text.
TitleText(type, t) ==
  IF t > 0 THEN <<type, t>>
  ELSE IF t < 0 THEN <<CHOOSE k \in ViewshedTypes : k # type, 0 - t>>
  ELSE <<"text", 0>>

\* C39: the title generated for a newly persisted entity differs from the
\* title of every entity in the collection, of any kind, after any sequence
\* of persist, rename and remove operations.
C39_GeneratedTitleIsNew ==
  \A k \in ViewshedTypes :
    \A x \in collection :
      TitleText(ents[x].type, ents[x].title) # <<k, getTitleForViewshed(Cur, k)>>

====
